---- MODULE Spec2Model ----
(***************************************************************************)
(* Model of the task queue of public/src/utils/taskRunner.js (TaskRunner): *)
(* addTask, runAll, executeTask, clear, getHistory and getStats.           *)
(*                                                                         *)
(* JavaScript runs one synchronous segment at a time; a step of this model *)
(* is one such segment: an API call up to its first await, or the          *)
(* continuation that runs when an awaited promise or a timer settles.      *)
(* Task objects live in a heap and are referred to by object id (oid),     *)
(* because runAll, executeTask and the array this.tasks share them by      *)
(* reference.                                                              *)
(***************************************************************************)
EXTENDS Integers, Sequences, FiniteSets, TLC

\* ------------------------------------------------------------------------
\* Bounds of the model
MaxTasks == 2       \* accepted addTask calls
MaxInvocations == 4 \* invocations of task actions, over all passes

\* Program constants
DefaultPriority == 5
DefaultRetries == 3
DefaultTimeout == 30000
BackoffUnit == 1000

Null == "null"
TimeoutMessage == "Task timeout"
Terminal == {"completed", "failed"}

\* Values an action resolves with, and messages of the errors it rejects with
Values == {"v1"}
Errors == {"e1"}

\* ------------------------------------------------------------------------
\* Inputs of addTask: objects that may lack any of their properties
RequiredOnly == [id |-> "t", name |-> "n", execute |-> "fn"]

ValidSpecs ==
  { RequiredOnly,
    RequiredOnly @@ [retries |-> 1],
    RequiredOnly @@ [priority |-> 1, retries |-> 1],
    RequiredOnly @@ [priority |-> 9, retries |-> 2, timeout |-> 5000] }

InvalidSpecs ==
  { [name |-> "n", execute |-> "fn"],
    [id |-> "t", execute |-> "fn"],
    [id |-> "t", name |-> "n", priority |-> 9] }

TaskSpecs == ValidSpecs \cup InvalidSpecs

\* Destructuring with a default: the default applies to an absent property
Field(spec, f, default) == IF f \in DOMAIN spec THEN spec[f] ELSE default

\* taskRunner.js:29
IsRejectedSpec(spec) ==
  \/ "id" \notin DOMAIN spec
  \/ "name" \notin DOMAIN spec
  \/ "execute" \notin DOMAIN spec

NewTaskNoDefaults(spec, o) ==
  [ oid      |-> o,
    id       |-> spec.id,
    name     |-> spec.name,
    priority |-> Field(spec, "priority", 0),
    execute  |-> spec.execute,
    retries  |-> Field(spec, "retries", 1),
    timeout  |-> Field(spec, "timeout", 0),
    status   |-> "pending",
    result   |-> Null,
    error    |-> Null,
    attempts |-> 0 ]

\* taskRunner.js:20-44: the object pushed on this.tasks (oid is its identity)
NewTask(spec, o) ==
  [ oid      |-> o,
    id       |-> spec.id,
    name     |-> spec.name,
    priority |-> Field(spec, "priority", DefaultPriority),
    execute  |-> spec.execute,
    retries  |-> Field(spec, "retries", DefaultRetries),
    timeout  |-> Field(spec, "timeout", DefaultTimeout),
    status   |-> "pending",
    result   |-> Null,
    error    |-> Null,
    attempts |-> 0 ]

\* ------------------------------------------------------------------------
\* this.tasks.sort((a, b) => b.priority - a.priority): Array.prototype.sort
\* is stable, so equal priorities keep their order

\* the position an element of priority p takes in a sorted prefix
RECURSIVE InsertPosUnstable(_, _, _, _)
InsertPosUnstable(h, sorted, p, i) ==
  IF i > Len(sorted) THEN i
  ELSE IF h[sorted[i]].priority <= p THEN i
  ELSE InsertPosUnstable(h, sorted, p, i + 1)

RECURSIVE InsertPos(_, _, _, _)
InsertPos(h, sorted, p, i) ==
  IF i > Len(sorted) THEN i
  ELSE IF h[sorted[i]].priority < p THEN i
  ELSE InsertPos(h, sorted, p, i + 1)

InsertSorted(h, sorted, o) ==
  LET k == InsertPos(h, sorted, h[o].priority, 1)
  IN SubSeq(sorted, 1, k - 1) \o <<o>> \o SubSeq(sorted, k, Len(sorted))

RECURSIVE SortFrom(_, _, _)
SortFrom(h, sorted, rest) ==
  IF rest = <<>> THEN sorted
  ELSE SortFrom(h, InsertSorted(h, sorted, Head(rest)), Tail(rest))

SortByPriority(h, arr) == SortFrom(h, <<>>, arr)

\* ------------------------------------------------------------------------
VARIABLES
  tasks,          \* this.tasks: the array of task objects (oids)
  isRunning,      \* this.isRunning
  executedTasks,  \* this.executedTasks: copies of finished tasks
  heap,           \* the task objects ever created, by oid
  pc,             \* where the runAll coroutine is suspended
  detached,       \* clear() replaced this.tasks while the for-of holds the old array
  oldArr,         \* the array the for-of iterates once detached
  idx,            \* elements the for-of iterator has delivered
  cur,            \* executeTask's parameter `task` (0: none)
  attempt,        \* executeTask's loop variable
  lastError,      \* executeTask's lastError (its message)
  results,        \* runAll's local `results`
  timer,          \* the timer the coroutine waits on or races against
  stale,          \* per task: invocations of execute() that lost their race and have not settled
  ev,             \* the segment that ran last, and what it handed to its caller
  outcomes,       \* how the attempts of the current executeTask call ended
  waits,          \* the backoff delays of the current executeTask call
  settledWith,    \* the value the last winning resolution carried
  startLog,       \* the tasks the current pass has started, in order
  passDirty,      \* addTask or clear ran since the current pass started
  invocations,    \* invocations of task.execute() so far
  timeouts        \* timeout timers that won

vars == << tasks, isRunning, executedTasks, heap, pc, detached, oldArr, idx, cur,
           attempt, lastError, results, timer, stale, ev, outcomes,
           waits, settledWith, startLog, passDirty, invocations, timeouts >>

NoTimer == [kind |-> "none", ms |-> 0]
\* the record of a segment: an API call (with how it returned) or a continuation
Event(op, returned, threw, val) ==
  [op |-> op, returned |-> returned, threw |-> threw, val |-> val]

\* ------------------------------------------------------------------------
\* The other components of the service keep their own state; the task queue
\* neither reads nor writes it.

\* the absent object (null) among object ids
NoObject == 0

\* ProjectService                                      services/project.js
VARIABLES
  now,                     \* Date.now(), in milliseconds
  cachedProjectStructure,  \* this.cachedProjectStructure (object id, or NoObject)
  cacheExpiry,             \* this.cacheExpiry
  structs,                 \* the structure objects ever created, by object id
  calls                    \* the getProjectStructure() calls made so far

cacheVars == << now, cachedProjectStructure, cacheExpiry, structs, calls >>

\* project.js:10-14
CacheInit ==
  /\ now = 0
  /\ cachedProjectStructure = NoObject
  /\ cacheExpiry = 0
  /\ structs = <<>>
  /\ calls = <<>>

\* ScannerAgent                                          agents/scanner.js
VARIABLES
  lastScan,          \* this.lastScan (report id, or NoObject)
  scanInterval,      \* this.scanInterval (timer id, or NoObject)
  timers,            \* the interval timers that are set and not cleared
  timersCreated,     \* setInterval calls so far
  scans,             \* the performScan() calls made so far
  reports,           \* the report objects ever created, by report id
  config,            \* config.ENABLE_AUTO_FIX and config.ENABLE_AUTO_MODIFY
  scanEv             \* whether the last step was a call that did nothing, and which

scanVars == << lastScan, scanInterval, timers, timersCreated, scans, reports,
               config, scanEv >>

\* scanner.js:14-17; the configuration is read from the environment when the
\* process starts (config/env.js:32-33) and is "unread" before
ScanInit ==
  /\ lastScan = NoObject
  /\ scanInterval = NoObject
  /\ timers = {}
  /\ timersCreated = 0
  /\ scans = <<>>
  /\ reports = <<>>
  /\ config = [read |-> FALSE, ENABLE_AUTO_FIX |-> FALSE, ENABLE_AUTO_MODIFY |-> FALSE]
  /\ scanEv = [op |-> "step", noop |-> FALSE]

\* ChatAgent and GeminiService      agents/chat.js, utils/taskRunner.js:189-341
SessionIds == {"A", "B"}

VARIABLES
  conversations,   \* this.conversations: session id -> conversation object (or NoObject)
  convs,           \* the conversation objects ever created, by object id
  turns,           \* the processMessage() calls made so far
  gemini,          \* geminiService.enabled, fixed when the process starts
  geminiHistory    \* geminiService.conversationHistory

chatVars == << conversations, convs, turns, gemini, geminiHistory >>

\* chat.js:12-14, taskRunner.js:190-202
ChatInit ==
  /\ conversations = [sid \in SessionIds |-> NoObject]
  /\ convs = <<>>
  /\ turns = <<>>
  /\ gemini = [read |-> FALSE, enabled |-> FALSE]
  /\ geminiHistory = <<>>

\* the state of the components other than the task queue
otherVars == << cacheVars, scanVars, chatVars >>

OthersInit == CacheInit /\ ScanInit /\ ChatInit

\* what the operations of one component leave alone
exceptCache == << vars, scanVars, chatVars >>
exceptScanner == << vars, cacheVars, chatVars >>
exceptChat == << vars, scanVars, now, calls >>

\* taskRunner.js:9-13
Init ==
  /\ tasks = <<>>
  /\ isRunning = FALSE
  /\ executedTasks = <<>>
  /\ heap = <<>>
  /\ pc = "idle"
  /\ detached = FALSE
  /\ oldArr = <<>>
  /\ idx = 0
  /\ cur = 0
  /\ attempt = 0
  /\ lastError = Null
  /\ results = <<>>
  /\ timer = NoTimer
  /\ stale = <<>>
  /\ ev = Event("init", FALSE, FALSE, <<>>)
  /\ outcomes = <<>>
  /\ waits = <<>>
  /\ settledWith = Null
  /\ startLog = <<>>
  /\ passDirty = FALSE
  /\ invocations = 0
  /\ timeouts = 0
  /\ OthersInit

\* the array the for-of iterator of runAll reads
IterArr == IF detached THEN oldArr ELSE tasks

\* ------------------------------------------------------------------------
\* addTask(task)                                        taskRunner.js:19-50
AddTask(spec) ==
  /\ UNCHANGED otherVars
  /\ IF IsRejectedSpec(spec)
     THEN /\ ev' = Event("addTask", FALSE, TRUE, <<spec>>)
          /\ UNCHANGED << tasks, heap, stale, passDirty >>
     ELSE /\ Len(heap) < MaxTasks
          /\ LET o == Len(heap) + 1
                 h == Append(heap, NewTask(spec, o))
             IN /\ heap' = h
                /\ tasks' = SortByPriority(h, Append(tasks, o))
          /\ stale' = Append(stale, 0)
          /\ passDirty' = (passDirty \/ pc # "idle")
          /\ ev' = Event("addTask", TRUE, FALSE, <<spec>>)
  /\ UNCHANGED << isRunning, executedTasks, pc, detached, oldArr, idx, cur, attempt,
                  lastError, results, timer, outcomes, waits, settledWith,
                  startLog, invocations, timeouts >>

\* ------------------------------------------------------------------------
\* executeTask: the start of attempt number att      taskRunner.js:93-110
BeginAttempt(h, o, att) ==
  [h EXCEPT ![o].attempts = att, ![o].status = "running"]

HasNextUnlessFailed(arr, i, h) ==
  i < Len(arr) /\ (i = 0 \/ h[arr[i]].status # "failed")

\* the for-of iterator has another element           taskRunner.js:67
HasNext(arr, i, h) == i < Len(arr)

\* the for-of of runAll takes its next element, from an iterator that has
\* delivered i elements of arr, with heap h and results res
\*                                                   taskRunner.js:67-82
ForLoopStep(op, arr, i, h, res, log) ==
  IF HasNext(arr, i, h)
  THEN LET o == arr[i + 1] IN
       /\ invocations < MaxInvocations
       /\ invocations' = invocations + 1
       /\ idx' = i + 1
       /\ cur' = o
       /\ attempt' = 1
       /\ lastError' = Null
       /\ heap' = BeginAttempt(h, o, 1)
       /\ timer' = [kind |-> "timeout", ms |-> h[o].timeout]
       /\ pc' = "race"
       /\ isRunning' = TRUE
       /\ results' = res
       /\ outcomes' = <<>>
       /\ waits' = <<>>
       /\ startLog' = Append(log, o)
       /\ ev' = Event(op, FALSE, FALSE, <<>>)
       /\ UNCHANGED << detached, oldArr >>
  ELSE /\ invocations' = invocations
       /\ pc' = "idle"
       /\ isRunning' = FALSE
       /\ ev' = Event(op, TRUE, FALSE, res)
       /\ results' = res
       /\ heap' = h
       /\ idx' = i
       /\ cur' = 0
       /\ attempt' = 0
       /\ lastError' = Null
       /\ timer' = NoTimer
       /\ outcomes' = <<>>
       /\ waits' = <<>>
       /\ startLog' = log
       /\ detached' = FALSE
       /\ oldArr' = <<>>

IsBusyNever == FALSE

\* taskRunner.js:57
IsBusy == isRunning

\* runAll()                                             taskRunner.js:56-83
RunAll ==
  /\ UNCHANGED otherVars
  /\ IF IsBusy
     THEN /\ ev' = Event("runAll", TRUE, FALSE, <<>>)
          /\ UNCHANGED << tasks, isRunning, executedTasks, heap, pc, detached, oldArr,
                          idx, cur, attempt, lastError, results, timer, stale,
                          outcomes, waits, settledWith, startLog, passDirty,
                          invocations, timeouts >>
     ELSE /\ passDirty' = FALSE
          /\ ForLoopStep("runAll", tasks, 0, heap, <<>>, <<>>)
          /\ UNCHANGED << tasks, executedTasks, stale, settledWith, timeouts >>

\* ------------------------------------------------------------------------
\* executeTask                                          taskRunner.js:90-141

CompleteTaskNoResult(t, v) == [t EXCEPT !.status = "completed"]

\* taskRunner.js:112-113
CompleteTask(t, v) == [t EXCEPT !.status = "completed", !.result = v]

FailTaskNoError(t, e) == [t EXCEPT !.status = "failed"]

\* taskRunner.js:132-133
FailTask(t, e) == [t EXCEPT !.status = "failed", !.error = e]

HasAttemptsLeftOffByOne(t, att) == att <= t.retries

HasAttemptsLeftAlways(t, att) == TRUE

\* taskRunner.js:93 and 125: another attempt follows attempt att
HasAttemptsLeft(t, att) == att < t.retries

BackoffDelayConstant(att) == BackoffUnit

\* taskRunner.js:127
BackoffDelay(att) == BackoffUnit * att

\* the race is won by the action's promise resolving with v
\*                                                   taskRunner.js:107-118
ActionResolves(v) ==
  /\ UNCHANGED otherVars
  /\ pc = "race"
  /\ ev' = Event("resolve", FALSE, FALSE, <<>>)
  /\ LET h == [heap EXCEPT ![cur] = CompleteTask(heap[cur], v)] IN
     /\ heap' = h
     /\ executedTasks' = Append(executedTasks, h[cur])
  /\ pc' = "returned"
  /\ timer' = NoTimer
  /\ outcomes' = Append(outcomes, "resolve")
  /\ settledWith' = v
  /\ UNCHANGED << tasks, isRunning, detached, oldArr, idx, cur, attempt, lastError,
                  results, stale, waits, startLog, passDirty, invocations,
                  timeouts >>

\* the catch block, entered with an error of message e
\*                                                   taskRunner.js:119-140
AttemptFailed(e, kind) ==
  /\ lastError' = e
  /\ outcomes' = Append(outcomes, kind)
  /\ IF HasAttemptsLeft(heap[cur], attempt)
     THEN /\ pc' = "backoff"
          /\ timer' = [kind |-> "backoff", ms |-> BackoffDelay(attempt)]
          /\ waits' = Append(waits, BackoffDelay(attempt))
          /\ UNCHANGED << heap, executedTasks >>
     ELSE /\ LET h == [heap EXCEPT ![cur] = FailTask(heap[cur], e)] IN
             /\ heap' = h
             /\ executedTasks' = Append(executedTasks, h[cur])
          /\ pc' = "returned"
          /\ timer' = NoTimer
          /\ waits' = waits
  /\ UNCHANGED << tasks, isRunning, detached, oldArr, idx, cur, attempt, results,
                  settledWith, startLog, passDirty, invocations >>

\* the race is won by the action's promise rejecting with Error(e)
ActionRejects(e) ==
  /\ UNCHANGED otherVars
  /\ pc = "race"
  /\ ev' = Event("reject", FALSE, FALSE, <<>>)
  /\ AttemptFailed(e, "reject")
  /\ UNCHANGED << stale, timeouts >>

\* the race is won by the timeout timer; the action's promise stays unsettled
\*                                                   taskRunner.js:100-110
TimeoutFires ==
  /\ UNCHANGED otherVars
  /\ pc = "race"
  /\ ev' = Event("timeout", FALSE, FALSE, <<>>)
  /\ timeouts' = timeouts + 1
  /\ stale' = [stale EXCEPT ![cur] = @ + 1]
  /\ AttemptFailed(TimeoutMessage, "timeout")

\* the backoff timer fires and the next attempt starts
\*                                                   taskRunner.js:127, 93-110
BackoffFires ==
  /\ UNCHANGED otherVars
  /\ pc = "backoff"
  /\ invocations < MaxInvocations
  /\ invocations' = invocations + 1
  /\ ev' = Event("backoff", FALSE, FALSE, <<>>)
  /\ attempt' = attempt + 1
  /\ heap' = BeginAttempt(heap, cur, attempt + 1)
  /\ timer' = [kind |-> "timeout", ms |-> heap[cur].timeout]
  /\ pc' = "race"
  /\ UNCHANGED << tasks, isRunning, executedTasks, detached, oldArr, idx, cur,
                  lastError, results, stale, outcomes, waits, settledWith,
                  startLog, passDirty, timeouts >>

\* runAll resumes with the task executeTask returned   taskRunner.js:69-77
LoopNext ==
  /\ UNCHANGED otherVars
  /\ pc = "returned"
  /\ ForLoopStep("loopNext", IterArr, idx, heap, Append(results, cur), startLog)
  /\ UNCHANGED << tasks, executedTasks, stale, settledWith, passDirty,
                  timeouts >>

LateSettlementCompletes(h, o, v) == [h EXCEPT ![o] = CompleteTask(h[o], v)]

\* what the settlement of a promise that lost its Promise.race does to the
\* task objects: the race is settled already      taskRunner.js:107-110
LateSettlement(h, o, v) == h

\* an action whose attempt timed out settles (resolves with v, or rejects)
LateSettle(o, v) ==
  /\ UNCHANGED otherVars
  /\ o \in 1..Len(stale)
  /\ stale[o] > 0
  /\ ev' = Event("lateSettle", FALSE, FALSE, <<>>)
  /\ stale' = [stale EXCEPT ![o] = @ - 1]
  /\ heap' = LateSettlement(heap, o, v)
  /\ UNCHANGED << tasks, isRunning, executedTasks, pc, detached, oldArr, idx, cur,
                  attempt, lastError, results, timer, outcomes, waits,
                  settledWith, startLog, passDirty, invocations, timeouts >>

\* clear()                                            taskRunner.js:146-150
Clear ==
  /\ UNCHANGED otherVars
  /\ tasks' = <<>>
  /\ executedTasks' = <<>>
  /\ IF pc # "idle" /\ ~detached
     THEN detached' = TRUE /\ oldArr' = tasks
     ELSE UNCHANGED << detached, oldArr >>
  /\ passDirty' = (passDirty \/ pc # "idle")
  /\ ev' = Event("clear", TRUE, FALSE, <<>>)
  /\ UNCHANGED << isRunning, heap, pc, idx, cur, attempt, lastError, results,
                  timer, stale, outcomes, waits, settledWith, startLog, invocations,
                  timeouts >>

\* ------------------------------------------------------------------------
\* getHistory()                                       taskRunner.js:156-158
GetHistory == executedTasks

CountStatus(history, st) ==
  Cardinality({i \in 1..Len(history) : history[i].status = st})

\* a quotient of naturals, in lowest terms (den 1 for a whole number)
RECURSIVE Gcd(_, _)
Gcd(a, b) == IF b = 0 THEN a ELSE Gcd(b, a % b)

Ratio(n, d) ==
  LET g == Gcd(n, d) IN [num |-> n \div g, den |-> d \div g]

GetStatsRateOfTotal(history) ==
  LET completed == CountStatus(history, "completed")
      failed == CountStatus(history, "failed")
  IN [ total |-> Len(history),
       completed |-> completed,
       failed |-> failed,
       successRate |-> IF Len(history) > 0
                       THEN Ratio(failed * 100, Len(history))
                       ELSE Ratio(0, 1) ]

\* getStats()                                         taskRunner.js:164-175
GetStats(history) ==
  LET completed == CountStatus(history, "completed")
      failed == CountStatus(history, "failed")
  IN [ total |-> Len(history),
       completed |-> completed,
       failed |-> failed,
       successRate |-> IF Len(history) > 0
                       THEN Ratio(completed * 100, Len(history))
                       ELSE Ratio(0, 1) ]

\* ------------------------------------------------------------------------
Next ==
  \/ \E spec \in TaskSpecs : AddTask(spec)
  \/ RunAll
  \/ \E v \in Values : ActionResolves(v)
  \/ \E e \in Errors : ActionRejects(e)
  \/ TimeoutFires
  \/ BackoffFires
  \/ LoopNext
  \/ \E o \in 1..MaxTasks, v \in Values : LateSettle(o, v)
  \/ Clear

Spec == Init /\ [][Next]_<< vars, otherVars >>

\* ------------------------------------------------------------------------
\* The queue under the scheduling of the event loop: a timer that was set
\* fires, and a continuation whose promise has settled runs; whether a task
\* action ever settles is left open.  The invocations a pass may still need
\* (the attempts left of the task in hand and the retries of the tasks the
\* iterator has not delivered yet) are kept within MaxPassInvocations by
\* the calls that are let in, so that no pass is cut short by a bound.
RECURSIVE RetriesFrom(_, _, _)
RetriesFrom(h, arr, i) ==
  IF i > Len(arr) THEN 0 ELSE h[arr[i]].retries + RetriesFrom(h, arr, i + 1)

StillNeeded ==
  IF pc = "idle" THEN 0
  ELSE (IF pc \in {"race", "backoff"} THEN heap[cur].retries - attempt ELSE 0)
         + RetriesFrom(heap, IterArr, idx + 1)

\* invocations of task actions in the passes that are followed to their end
MaxPassInvocations == 3

WithinBudget == invocations + StillNeeded <= MaxPassInvocations

\* addTask and runAll calls that leave the passes within the bound
BoundedAddTask(spec) == AddTask(spec) /\ WithinBudget'

BoundedRunAll == RunAll /\ WithinBudget'

LiveNext ==
  \/ \E spec \in TaskSpecs : BoundedAddTask(spec)
  \/ BoundedRunAll
  \/ \E v \in Values : ActionResolves(v)
  \/ \E e \in Errors : ActionRejects(e)
  \/ TimeoutFires
  \/ BackoffFires
  \/ LoopNext
  \/ \E o \in 1..MaxTasks, v \in Values : LateSettle(o, v)
  \/ Clear

SpecLive ==
  /\ Init
  /\ [][LiveNext]_<< vars, otherVars >>
  /\ WF_<< vars, otherVars >>(TimeoutFires)
  /\ WF_<< vars, otherVars >>(BackoffFires)
  /\ WF_<< vars, otherVars >>(LoopNext)

\* ------------------------------------------------------------------------
\* Helpers of the properties
Last(seq) == seq[Len(seq)]

AllOutcomes(seq, kind) == \A i \in 1..Len(seq) : seq[i] = kind

RECURSIVE SumSeq(_)
SumSeq(seq) == IF seq = <<>> THEN 0 ELSE Head(seq) + SumSeq(Tail(seq))

\* executeTask returns its task in this step
Returns == pc = "race" /\ pc' = "returned"

\* actions invoked and not settled: the one being raced and the ones that
\* lost their race to the timeout timer
InFlight == SumSeq(stale) + (IF pc = "race" THEN 1 ELSE 0)

\* ------------------------------------------------------------------------
\* C1: the pending list is always sorted by descending priority with equal
\* priorities in submission order (oids grow with submission), and a pass
\* started after the addTask calls (no addTask or clear during the pass)
\* starts the tasks in exactly the order of the list, so in non-increasing
\* priority.
C1_PriorityOrder ==
  /\ [](\A i, j \in 1..Len(tasks) :
          i < j => /\ heap[tasks[i]].priority >= heap[tasks[j]].priority
                   /\ (heap[tasks[i]].priority = heap[tasks[j]].priority
                         => tasks[i] < tasks[j]))
  /\ [](~passDirty =>
          \A i, j \in 1..Len(startLog) :
            i < j => heap[startLog[i]].priority >= heap[startLog[j]].priority)
  /\ []((pc # "idle" /\ ~passDirty) =>
          /\ Len(startLog) <= Len(tasks)
          /\ startLog = SubSeq(tasks, 1, Len(startLog)))
  /\ [][ (pc' = "idle" /\ ev'.op \in {"runAll", "loopNext"} /\ ~isRunning'
            /\ (isRunning \/ pc = "idle") /\ ~passDirty' /\ ev' # ev) =>
           (isRunning => startLog' = tasks) ]_vars

\* tasks submitted with priorities 1 then 9 were run as 9, 1
C1_Witness ==
  /\ pc = "idle" /\ ~passDirty
  /\ Len(heap) = 2 /\ heap[1].priority = 1 /\ heap[2].priority = 9
  /\ startLog = <<2, 1>>

\* tasks of equal priority were run in submission order
C1_WitnessStable ==
  /\ pc = "idle" /\ ~passDirty
  /\ Len(heap) = 2 /\ heap[1].priority = heap[2].priority
  /\ startLog = <<1, 2>>

C3_SuccessOnAttemptK ==
  /\ [][ (Returns /\ Last(outcomes') = "resolve") =>
           /\ heap'[cur].status = "completed"
           /\ heap'[cur].attempts = Len(outcomes')
           /\ Len(outcomes') <= heap[cur].retries
           /\ \A i \in 1..Len(outcomes) : outcomes[i] # "resolve"
           /\ settledWith' \in Values
           /\ heap'[cur].result = settledWith'
           /\ executedTasks' = Append(executedTasks, heap'[cur]) ]_vars
  /\ [][ pc = "returned" =>
           \/ pc' = "returned" /\ outcomes' = outcomes /\ heap'[cur] = heap[cur]
           \/ pc' = "idle"
           \/ pc' = "race" /\ attempt' = 1 /\ outcomes' = <<>> ]_vars

\* a task succeeded on its second attempt
C3_Witness ==
  /\ pc = "returned"
  /\ outcomes = <<"reject", "resolve">>
  /\ heap[cur].status = "completed" /\ heap[cur].attempts = 2
  /\ heap[cur].result = "v1"

\* ------------------------------------------------------------------------
\* C4: an attempt ended by its timeout is handled like a rejected attempt,
\* with the error 'Task timeout' (backoff if attempts are left, 'failed'
\* otherwise); an executeTask call all of whose attempts timed out returns
\* its task 'failed' with error 'Task timeout'; and the settlement of an
\* action after its timeout fired changes no task and no history entry.
C4_TimeoutIsFailedAttempt ==
  /\ [][ (pc = "race" /\ ev'.op \in {"timeout", "reject"}) =>
           /\ (ev'.op = "timeout" => lastError' = TimeoutMessage)
           /\ IF attempt < heap[cur].retries
              THEN /\ pc' = "backoff"
                   /\ timer' = [kind |-> "backoff", ms |-> 1000 * attempt]
                   /\ heap' = heap /\ executedTasks' = executedTasks
              ELSE /\ pc' = "returned"
                   /\ heap'[cur].status = "failed"
                   /\ heap'[cur].error = lastError'
                   /\ executedTasks' = Append(executedTasks, heap'[cur]) ]_vars
  /\ [][ (Returns /\ AllOutcomes(outcomes', "timeout")) =>
           /\ Len(outcomes') = heap[cur].retries
           /\ heap'[cur].status = "failed"
           /\ heap'[cur].error = TimeoutMessage ]_vars
  /\ [][ ev'.op = "lateSettle" =>
           /\ heap' = heap
           /\ executedTasks' = executedTasks
           /\ tasks' = tasks /\ pc' = pc /\ results' = results ]_vars

\* a task failed by timeouts alone, and one of its actions settled afterwards
C4_Witness ==
  /\ ev.op = "lateSettle"
  /\ \E i \in 1..Len(executedTasks) :
       /\ executedTasks[i].status = "failed"
       /\ executedTasks[i].error = TimeoutMessage
       /\ executedTasks[i].retries = 2
       /\ heap[executedTasks[i].oid] = executedTasks[i]

\* ------------------------------------------------------------------------
\* C5 as stated: at most one action of the queue is in flight at any time.
C5_AtMostOneInFlight == InFlight <= 1

\* C5 as amended: an attempt or a task is started only when no attempt is
\* being awaited (the previous one ended by its action settling or by its
\* timeout), so at most one action is awaited at a time; every other action
\* in flight belongs to an attempt that its timeout ended.
C5_OneAwaitedAction ==
  /\ [][ (pc' = "race" /\ ev'.op \in {"runAll", "loopNext", "backoff"}
            /\ ~ev'.returned) =>
           /\ pc \in {"idle", "returned", "backoff"}
           /\ stale' = stale ]_vars
  /\ [][ SumSeq(stale') > SumSeq(stale) =>
           /\ ev'.op = "timeout" /\ pc = "race"
           /\ SumSeq(stale') = SumSeq(stale) + 1 ]_vars
  /\ [](SumSeq(stale) <= timeouts)

\* an attempt is awaited while the action of a timed-out attempt still runs
C5_Witness ==
  /\ pc = "race"
  /\ SumSeq(stale) >= 1
  /\ InFlight = 2

\* ------------------------------------------------------------------------
\* C6: a runAll() call made while a pass is in progress returns [] at once
\* and changes nothing of the queue, its tasks or the pass; isRunning is
\* true exactly while a pass is in progress.
C6_SingleFlight ==
  /\ [](isRunning <=> pc # "idle")
  /\ [][ (isRunning /\ ev'.op = "runAll") =>
           /\ ev' = Event("runAll", TRUE, FALSE, <<>>)
           /\ UNCHANGED << tasks, isRunning, executedTasks, heap, pc, detached,
                           oldArr, idx, cur, attempt, lastError, results, timer,
                           stale, outcomes, startLog >> ]_vars

\* runAll() was called during a pass and returned []
C6_Witness ==
  /\ isRunning /\ pc = "race"
  /\ ev = Event("runAll", TRUE, FALSE, <<>>)

\* ------------------------------------------------------------------------
\* C7 as stated: a runAll() started when no pass is in progress does not
\* execute a task that is already 'completed' or 'failed'.
C7_TerminalTaskNotRerun ==
  [][ (pc = "idle" /\ pc' = "race") => heap[cur'].status \notin Terminal ]_vars

C9_AddTaskValidation ==
  [][ ev'.op = "addTask" =>
        LET spec == ev'.val[1] IN
        IF ~({"id", "name", "execute"} \subseteq DOMAIN spec)
        THEN /\ ev'.threw
             /\ tasks' = tasks /\ heap' = heap /\ executedTasks' = executedTasks
        ELSE LET o == Len(heap) + 1 IN
             /\ ~ev'.threw
             /\ Len(heap') = o
             /\ \A p \in 1..Len(heap) : heap'[p] = heap[p]
             /\ executedTasks' = executedTasks
             /\ Len(tasks') = Len(tasks) + 1
             /\ \E i \in 1..Len(tasks') : tasks'[i] = o
             /\ \A i \in 1..Len(tasks) : \E j \in 1..Len(tasks') : tasks'[j] = tasks[i]
             /\ heap'[o].status = "pending"
             /\ heap'[o].attempts = 0
             /\ heap'[o].id = spec.id /\ heap'[o].name = spec.name
             /\ heap'[o].execute = spec.execute
             /\ heap'[o].priority =
                  (IF "priority" \in DOMAIN spec THEN spec.priority ELSE 5)
             /\ heap'[o].retries =
                  (IF "retries" \in DOMAIN spec THEN spec.retries ELSE 3)
             /\ heap'[o].timeout =
                  (IF "timeout" \in DOMAIN spec THEN spec.timeout ELSE 30000) ]_vars

\* a spec with only id, name and execute was queued with all three defaults
C9_Witness ==
  /\ ev.op = "addTask" /\ ev.returned /\ ev.val = <<RequiredOnly>>
  /\ LET t == heap[Len(heap)] IN
       t.priority = 5 /\ t.retries = 3 /\ t.timeout = 30000 /\ t.status = "pending"
  /\ \E i \in 1..Len(tasks) : tasks[i] = Len(heap)

\* a spec without execute was rejected while a task was queued
C9_WitnessRejected ==
  /\ ev.op = "addTask" /\ ev.threw
  /\ "execute" \notin DOMAIN ev.val[1]
  /\ Len(tasks) = 1

\* ------------------------------------------------------------------------
\* C10: getStats() returns total = the length of the history, completed and
\* failed = the entries of that status, total = completed + failed, and
\* successRate = completed / total * 100, or 0 for an empty history.
C10_Stats ==
  LET st == GetStats(executedTasks)
      nCompleted == Cardinality({i \in DOMAIN executedTasks :
                                   executedTasks[i].status = "completed"})
      nFailed == Cardinality({i \in DOMAIN executedTasks :
                                executedTasks[i].status = "failed"})
  IN /\ st.total = Len(GetHistory)
     /\ st.completed = nCompleted
     /\ st.failed = nFailed
     /\ st.total = st.completed + st.failed
     /\ (Len(executedTasks) = 0 => st.successRate = [num |-> 0, den |-> 1])
     /\ (Len(executedTasks) > 0 =>
           /\ st.successRate.den > 0
           /\ st.successRate.num * Len(executedTasks)
                = nCompleted * 100 * st.successRate.den)

\* one of three history entries is completed: the success rate is 100/3
C10_Witness ==
  /\ Len(executedTasks) = 3
  /\ GetStats(executedTasks).completed = 1
  /\ GetStats(executedTasks).failed = 2
  /\ GetStats(executedTasks).successRate = [num |-> 100, den |-> 3]

\* ========================================================================
\* ProjectService.getProjectStructure(): the cache of the project structure
\*                                              services/project.js:9-88
\* ========================================================================

\* Bounds of the cache model
MaxMinutes == 7   \* the clock stops after this many minutes
MaxCalls == 3     \* getProjectStructure() calls

Minute == 60 * 1000

\* project.js:13
CACHE_TTL == 5 * 60 * 1000

\* What githubService.listFiles('') resolves with: entries of the repository
\* root, each with a type                              services/github.js:162-174
RootWithSource ==
  << [name |-> "package.json", path |-> "package.json", size |-> 850, type |-> "file"],
     [name |-> "src", path |-> "src", size |-> 0, type |-> "dir"],
     [name |-> "vendor", path |-> "vendor", size |-> 0, type |-> "submodule"],
     [name |-> "app.js", path |-> "app.js", size |-> 120, type |-> "file"] >>

RootWithEnv ==
  << [name |-> ".env", path |-> ".env", size |-> 10, type |-> "file"] >>

Listings == { RootWithSource, RootWithEnv }

\* project.js:37-42
FileEntry(item) == [name |-> item.name, path |-> item.path, size |-> item.size]

\* project.js:43-47
DirEntry(item) == [name |-> item.name, path |-> item.path]

\* project.js:36-49: the entries of the listing, by type, in listing order
RECURSIVE FilesOf(_)
FilesOf(root) ==
  IF root = <<>> THEN <<>>
  ELSE (IF Head(root).type = "file" THEN << FileEntry(Head(root)) >> ELSE <<>>)
       \o FilesOf(Tail(root))

RECURSIVE DirectoriesOf(_)
DirectoriesOf(root) ==
  IF root = <<>> THEN <<>>
  ELSE (IF Head(root).type = "dir" THEN << DirEntry(Head(root)) >> ELSE <<>>)
       \o DirectoriesOf(Tail(root))

\* project.js:30-49: the structure object built from a listing at time stamp;
\* readme is the property the chat agent adds to its project context
BuildStructure(root, stamp) ==
  [ files       |-> FilesOf(root),
    directories |-> DirectoriesOf(root),
    timestamp   |-> stamp,
    readme      |-> Null ]

\* project.js:71-88
GetMockProjectStructure(stamp) ==
  [ files       |-> << [name |-> "package.json", path |-> "package.json", size |-> 850],
                       [name |-> "Dockerfile", path |-> "Dockerfile", size |-> 320],
                       [name |-> "README.md", path |-> "README.md", size |-> 2050],
                       [name |-> ".env.example", path |-> ".env.example", size |-> 450],
                       [name |-> ".gitignore", path |-> ".gitignore", size |-> 280] >>,
    directories |-> << [name |-> "public", path |-> "public"],
                       [name |-> "src", path |-> "src"],
                       [name |-> "assets", path |-> "assets"],
                       [name |-> "scripts", path |-> "scripts"] >>,
    timestamp   |-> stamp,
    readme      |-> Null ]

IsCacheHitInclusive(cached, expiry, t) == cached # NoObject /\ t <= expiry

\* project.js:23
IsCacheHit(cached, expiry, t) == cached # NoObject /\ t < expiry

ExpiryFromCompletion(callTime, doneTime) == doneTime + CACHE_TTL

\* project.js:21 and 52: the expiry counts from the `now` read when the call
\* began, not from the time the listing arrived
ExpiryOf(callTime, doneTime) == callTime + CACHE_TTL

\* a getProjectStructure() call: the time it read, whether it was answered
\* from the cache, its listFiles() invocations and how that ended, where it
\* is suspended, and what it handed to its caller
NewCall(t, hit, obj) ==
  [ at     |-> t,
    hit    |-> hit,
    reads  |-> IF hit THEN 0 ELSE 1,
    remote |-> IF hit THEN "none" ELSE "pending",
    error  |-> Null,
    pc     |-> IF hit THEN "returned" ELSE "listFiles",
    ret    |-> obj,
    threw  |-> Null ]

\* time passes
Tick ==
  /\ now < MaxMinutes * Minute
  /\ now' = now + Minute
  /\ UNCHANGED << cachedProjectStructure, cacheExpiry, structs, calls >>
  /\ UNCHANGED exceptCache

\* getProjectStructure(), up to its return or its first await
\*                                                      project.js:20-29
GetProjectStructure ==
  /\ Len(calls) < MaxCalls
  /\ IF IsCacheHit(cachedProjectStructure, cacheExpiry, now)
     THEN calls' = Append(calls, NewCall(now, TRUE, cachedProjectStructure))
     ELSE calls' = Append(calls, NewCall(now, FALSE, NoObject))
  /\ UNCHANGED << now, cachedProjectStructure, cacheExpiry, structs >>
  /\ UNCHANGED exceptCache

\* githubService.listFiles('') resolves with root       project.js:29-59
ListFilesResolves(c, root) ==
  /\ c \in 1..Len(calls)
  /\ calls[c].pc = "listFiles"
  /\ LET obj == Len(structs) + 1 IN
     /\ structs' = Append(structs, BuildStructure(root, now))
     /\ cachedProjectStructure' = obj
     /\ cacheExpiry' = ExpiryOf(calls[c].at, now)
     /\ calls' = [calls EXCEPT ![c].pc = "returned", ![c].remote = "resolved",
                               ![c].ret = obj]
  /\ UNCHANGED now
  /\ UNCHANGED exceptCache

\* project.js:60-64: what the catch block hands to the caller for an error e
MockOrThrow(e) == [ret |-> TRUE, threw |-> Null]

\* githubService.listFiles('') rejects with Error(e)    project.js:60-64
ListFilesRejects(c, e) ==
  /\ c \in 1..Len(calls)
  /\ calls[c].pc = "listFiles"
  /\ LET out == MockOrThrow(e)
         obj == Len(structs) + 1
     IN IF out.ret
        THEN /\ structs' = Append(structs, GetMockProjectStructure(now))
             /\ calls' = [calls EXCEPT ![c].pc = "returned", ![c].remote = "rejected",
                                       ![c].error = e, ![c].ret = obj,
                                       ![c].threw = out.threw]
        ELSE /\ structs' = structs
             /\ calls' = [calls EXCEPT ![c].pc = "returned", ![c].remote = "rejected",
                                       ![c].error = e, ![c].threw = out.threw]
  /\ UNCHANGED << now, cachedProjectStructure, cacheExpiry >>
  /\ UNCHANGED exceptCache

CacheNext ==
  \/ Tick
  \/ GetProjectStructure
  \/ \E c \in 1..MaxCalls, root \in Listings : ListFilesResolves(c, root)
  \/ \E c \in 1..MaxCalls, e \in Errors : ListFilesRejects(c, e)

SpecCache == Init /\ [][CacheNext]_<< vars, otherVars >>

\* ========================================================================
\* ScannerAgent: periodic scanning, performScan() and the last report
\*                                                agents/scanner.js:13-258
\* ========================================================================

\* Bounds of the scanner model
MaxScans == 2        \* performScan() calls
MaxTimers == 2       \* setInterval calls
MaxScanMinutes == 1  \* the clock of the scanner model stops after this many minutes

\* How an awaited call of a collaborator ends: it resolves with val, or it
\* rejects with Error(error)
Resolved(val) == [ok |-> TRUE, val |-> val, error |-> Null]

\* The structures projectService.getProjectStructure() hands out: one built
\* from a listing of the repository, or the mock; it never rejects
\*                                                      project.js:20-65
ScanStructures == { BuildStructure(RootWithEnv, 0), GetMockProjectStructure(0) }

StructureOutcomes == { Resolved(BuildStructure(RootWithEnv, 0)) }

\* project.js:121
CriticalFiles == << "package.json", "README.md", "Dockerfile" >>

\* project.js:122
FileNames(structure) == { structure.files[i].name : i \in DOMAIN structure.files }

\* project.js:126-131
MissingFileIssue(file) ==
  [type |-> "missing_file", severity |-> "high", file |-> file,
   message |-> "Critical file missing"]

\* project.js:137-142
EnvFileIssue ==
  [type |-> "security", severity |-> "critical", file |-> ".env",
   message |-> ".env file should not be committed"]

\* project.js:153-158
DependenciesIssue ==
  [type |-> "warning", severity |-> "medium", file |-> "package.json",
   message |-> "Review and update dependencies periodically"]

\* project.js:124-133
RECURSIVE MissingFiles(_, _)
MissingFiles(critical, names) ==
  IF critical = <<>> THEN <<>>
  ELSE (IF Head(critical) \notin names
        THEN << MissingFileIssue(Head(critical)) >> ELSE <<>>)
       \o MissingFiles(Tail(critical), names)

\* What reading package.json gives scanForIssues: it cannot be read or
\* parsed or has no dependencies, or it has dependencies  project.js:146-163
PackageJsonOutcomes == { "unreadable", "dependencies" }

\* projectService.scanForIssues(), from the structure it fetched itself and
\* what reading package.json gave                       project.js:115-175
ScanForIssues(structure, pkg) ==
  LET names == FileNames(structure) IN
    MissingFiles(CriticalFiles, names)
    \o (IF ".env" \in names THEN << EnvFileIssue >> ELSE <<>>)
    \o (IF "package.json" \in names /\ pkg = "dependencies"
        THEN << DependenciesIssue >> ELSE <<>>)

\* scanForIssues rethrows only what getProjectStructure throws, which is
\* nothing                                              project.js:171-174
IssueOutcomes ==
  { Resolved(ScanForIssues(st, pkg)) : st \in ScanStructures, pkg \in PackageJsonOutcomes }

\* analyzeProject() catches every error of its own      scanner.js:109-140
NoAnalysis == [files |-> <<>>, overallHealth |-> "none"]

Analyses == { [files |-> << "app.js" >>, overallHealth |-> "unknown"] }

\* geminiService.generate(prompt) resolves with the text of the model or, when
\* the model fails, with a text that says so; it never rejects
\*                                                 utils/taskRunner.js:210-230
GenerateOutcomes ==
  { Resolved("advice"), Resolved("Gemini unavailable: e1") }

\* scanner.js:150-156
FixedRecommendation ==
  [priority |-> "low", suggestion |-> "Keep code reviewed regularly",
   reason |-> "No critical issues found"]

\* scanner.js:175-181
AIRecommendation(text) ==
  [priority |-> "high", suggestion |-> text,
   reason |-> "AI-generated recommendations based on scan"]

NeedsNoAIAlways(issues) == TRUE

\* scanner.js:149
NeedsNoAI(issues) == Len(issues) = 0

\* generateRecommendations(issues, analysis), given how generate() ended
\*                                                      scanner.js:148-186
GenerateRecommendations(issues, out) ==
  IF NeedsNoAI(issues) THEN << FixedRecommendation >>
  ELSE IF out.ok THEN << AIRecommendation(out.val) >>
  ELSE <<>>

\* a performScan() call: who made it, where it is suspended, its locals,
\* and what it handed to its caller
NewScan(trigger, t) ==
  [ trigger   |-> trigger,
    pc        |-> "structure",
    startTime |-> t,
    structure |-> BuildStructure(<<>>, 0),
    issues    |-> <<>>,
    analysis  |-> NoAnalysis,
    timestamp |-> 0,
    duration  |-> 0,
    generated |-> 0,       \* calls of geminiService.generate
    aiText    |-> Null,    \* what generate resolved with
    report    |-> NoObject,
    filed     |-> 0,       \* calls of createIssueFromScan
    fileError |-> Null,    \* the error githubService.createIssue rejected with
    ret       |-> NoObject,
    threw     |-> Null,
    stopped   |-> FALSE ]  \* stopScanning() ran while the scan was in flight

\* what scanEv keeps of a step: the call, when it was a no-op
ScanEvent(op, noop) == [op |-> IF noop THEN op ELSE "step", noop |-> noop]

InFlightScan(sc) == sc.pc \notin {"returned", "threw"}

\* scanner.js:99-102: the catch block logs and rethrows
ScanThrows(sc, e) == [sc EXCEPT !.pc = "threw", !.threw = e]

\* time passes while scans are under way
ScanTick ==
  /\ now < MaxScanMinutes * Minute
  /\ Tick

\* config/env.js:32-33, read once when the process starts
LoadConfig(fix, modify) ==
  /\ ~config.read
  /\ config' = [read |-> TRUE, ENABLE_AUTO_FIX |-> fix, ENABLE_AUTO_MODIFY |-> modify]
  /\ scanEv' = ScanEvent("config", FALSE)
  /\ UNCHANGED << lastScan, scanInterval, timers, timersCreated, scans, reports >>
  /\ UNCHANGED exceptScanner

\* performScan() called by a route handler, up to its first await
\*                                    scanner.js:56-63, server.js:110-113
PerformScan ==
  /\ config.read
  /\ Len(scans) < MaxScans
  /\ scans' = Append(scans, NewScan("manual", now))
  /\ scanEv' = ScanEvent("performScan", FALSE)
  /\ UNCHANGED << lastScan, scanInterval, timers, timersCreated, reports, config >>
  /\ UNCHANGED exceptScanner

IsScanningNever == FALSE

\* scanner.js:23
IsScanning == scanInterval # NoObject

\* startPeriodicScanning()                              scanner.js:22-39
StartPeriodicScanning ==
  /\ config.read
  /\ IF IsScanning
     THEN /\ scanEv' = ScanEvent("start", TRUE)
          /\ UNCHANGED << scanInterval, timers, timersCreated, scans >>
     ELSE /\ Len(scans) < MaxScans
          /\ timersCreated < MaxTimers
          /\ scans' = Append(scans, NewScan("start", now))
          /\ timersCreated' = timersCreated + 1
          /\ timers' = timers \cup {timersCreated + 1}
          /\ scanInterval' = timersCreated + 1
          /\ scanEv' = ScanEvent("start", FALSE)
  /\ UNCHANGED << lastScan, reports, config >>
  /\ UNCHANGED exceptScanner

ClearIntervalNothing(ts, t) == ts

\* clearInterval(t)                                     scanner.js:46
ClearInterval(ts, t) == ts \ {t}

\* stopScanning()                                       scanner.js:44-50
StopScanning ==
  /\ config.read
  /\ IF scanInterval # NoObject
     THEN /\ timers' = ClearInterval(timers, scanInterval)
          /\ scanInterval' = NoObject
          /\ scans' = [s \in DOMAIN scans |->
                         IF InFlightScan(scans[s])
                         THEN [scans[s] EXCEPT !.stopped = TRUE] ELSE scans[s]]
          /\ scanEv' = ScanEvent("stop", FALSE)
     ELSE /\ scanEv' = ScanEvent("stop", TRUE)
          /\ UNCHANGED << scanInterval, timers, scans >>
  /\ UNCHANGED << lastScan, timersCreated, reports, config >>
  /\ UNCHANGED exceptScanner

\* the interval timer t fires and its callback calls performScan()
\*                                                      scanner.js:36-38
IntervalFires(t) ==
  /\ t \in timers
  /\ Len(scans) < MaxScans
  /\ scans' = Append(scans, NewScan("timer", now))
  /\ scanEv' = ScanEvent("interval", FALSE)
  /\ UNCHANGED << lastScan, scanInterval, timers, timersCreated, reports, config >>
  /\ UNCHANGED exceptScanner

\* getProjectStructure() settles for scan s             scanner.js:63-66
StructureSettles(s, out) ==
  /\ s \in 1..Len(scans)
  /\ scans[s].pc = "structure"
  /\ scans' = [scans EXCEPT ![s] =
                 IF out.ok
                 THEN [scans[s] EXCEPT !.structure = out.val, !.pc = "issues"]
                 ELSE ScanThrows(scans[s], out.error)]
  /\ scanEv' = ScanEvent("structure", FALSE)
  /\ UNCHANGED << lastScan, scanInterval, timers, timersCreated, reports, config >>
  /\ UNCHANGED exceptScanner

\* scanForIssues() settles for scan s                   scanner.js:66-69
IssuesSettle(s, out) ==
  /\ s \in 1..Len(scans)
  /\ scans[s].pc = "issues"
  /\ scans' = [scans EXCEPT ![s] =
                 IF out.ok
                 THEN [scans[s] EXCEPT !.issues = out.val, !.pc = "analysis"]
                 ELSE ScanThrows(scans[s], out.error)]
  /\ scanEv' = ScanEvent("issues", FALSE)
  /\ UNCHANGED << lastScan, scanInterval, timers, timersCreated, reports, config >>
  /\ UNCHANGED exceptScanner

\* analyzeProject() resolves with analysis a: the report's properties are
\* evaluated in order, up to the await of generateRecommendations
\*                                                      scanner.js:69-78
AnalysisResolves(s, a) ==
  /\ s \in 1..Len(scans)
  /\ scans[s].pc = "analysis"
  /\ scans' = [scans EXCEPT ![s] =
                 [scans[s] EXCEPT !.analysis = a,
                                  !.timestamp = now,
                                  !.duration = now - scans[s].startTime,
                                  !.generated = IF NeedsNoAI(scans[s].issues) THEN 0 ELSE 1,
                                  !.pc = "recommend"]]
  /\ scanEv' = ScanEvent("analysis", FALSE)
  /\ UNCHANGED << lastScan, scanInterval, timers, timersCreated, reports, config >>
  /\ UNCHANGED exceptScanner

AssembleReportPartial(sc, recs) ==
  [ timestamp       |-> sc.timestamp,
    duration        |-> sc.duration,
    structure       |-> sc.structure,
    issues          |-> sc.issues,
    analysis        |-> NoAnalysis,
    recommendations |-> <<>> ]

\* scanner.js:72-79
AssembleReport(sc, recs) ==
  [ timestamp       |-> sc.timestamp,
    duration        |-> sc.duration,
    structure       |-> sc.structure,
    issues          |-> sc.issues,
    analysis        |-> sc.analysis,
    recommendations |-> recs ]

\* scanner.js:89-98: what follows the assignment of this.lastScan
AfterStore(sc, cfg) ==
  IF cfg.ENABLE_AUTO_FIX /\ Len(sc.issues) > 0 THEN "createIssue"
  ELSE IF cfg.ENABLE_AUTO_MODIFY THEN "autoModify"
  ELSE "returned"

\* scanner.js:94-98: what follows createIssueFromScan
AfterCreateIssue(cfg) == IF cfg.ENABLE_AUTO_MODIFY THEN "autoModify" ELSE "returned"

\* generateRecommendations() resolves for scan s, its generate() call (if it
\* made one) having ended as out: the report is complete and is stored
\*                                                      scanner.js:78-98
RecommendationsResolve(s, out) ==
  /\ s \in 1..Len(scans)
  /\ scans[s].pc = "recommend"
  /\ LET sc == scans[s]
         r == Len(reports) + 1
         next == AfterStore(sc, config)
     IN /\ reports' = Append(reports,
                             AssembleReport(sc, GenerateRecommendations(sc.issues, out)))
        /\ lastScan' = r
        /\ scans' = [scans EXCEPT ![s] =
                       [sc EXCEPT !.aiText = IF sc.generated = 1 THEN out.val ELSE Null,
                                  !.report = r,
                                  !.pc = next,
                                  !.filed = IF next = "createIssue" THEN 1 ELSE 0,
                                  !.ret = IF next = "returned" THEN r ELSE NoObject]]
  /\ scanEv' = ScanEvent("recommend", FALSE)
  /\ UNCHANGED << scanInterval, timers, timersCreated, config >>
  /\ UNCHANGED exceptScanner

\* how githubService.createIssue settles                github.js:64-84
CreateIssueOutcomes ==
  { [ok |-> TRUE, error |-> Null] } \cup { [ok |-> FALSE, error |-> e] : e \in Errors }

CatchCreateIssueRethrows(e) == e

\* scanner.js:203-205: the catch block of createIssueFromScan logs the error
\* e; what it throws on to performScan
CatchCreateIssue(e) == Null

\* createIssueFromScan() ends for scan s, githubService.createIssue having
\* settled as out                              scanner.js:89-102, 192-206
CreateIssueSettles(s, out) ==
  /\ s \in 1..Len(scans)
  /\ scans[s].pc = "createIssue"
  /\ LET next == AfterCreateIssue(config)
         thrown == IF out.ok THEN Null ELSE CatchCreateIssue(out.error)
         sc == [scans[s] EXCEPT !.fileError = out.error]
     IN scans' = [scans EXCEPT ![s] =
                    IF thrown # Null
                    THEN ScanThrows(sc, thrown)
                    ELSE [sc EXCEPT !.pc = next,
                                    !.ret = IF next = "returned" THEN sc.report
                                            ELSE NoObject]]
  /\ scanEv' = ScanEvent("createIssue", FALSE)
  /\ UNCHANGED << lastScan, scanInterval, timers, timersCreated, reports, config >>
  /\ UNCHANGED exceptScanner

\* performAutoModifications() returns: it catches every error of its own
\*                                              scanner.js:94-98, 264-310
AutoModifySettles(s) ==
  /\ s \in 1..Len(scans)
  /\ scans[s].pc = "autoModify"
  /\ scans' = [scans EXCEPT ![s] =
                 [scans[s] EXCEPT !.pc = "returned", !.ret = scans[s].report]]
  /\ scanEv' = ScanEvent("autoModify", FALSE)
  /\ UNCHANGED << lastScan, scanInterval, timers, timersCreated, reports, config >>
  /\ UNCHANGED exceptScanner

\* scanner.js:256-258
GetLastScan == lastScan

\* the continuation of scan s, whichever collaborator it waits for
ScanContinues(s) ==
  \/ \E out \in StructureOutcomes : StructureSettles(s, out)
  \/ \E out \in IssueOutcomes : IssuesSettle(s, out)
  \/ \E a \in Analyses : AnalysisResolves(s, a)
  \/ \E out \in GenerateOutcomes : RecommendationsResolve(s, out)
  \/ \E out \in CreateIssueOutcomes : CreateIssueSettles(s, out)
  \/ AutoModifySettles(s)

ScanNext ==
  \/ ScanTick
  \/ \E fix, modify \in BOOLEAN : LoadConfig(fix, modify)
  \/ PerformScan
  \/ StartPeriodicScanning
  \/ StopScanning
  \/ \E t \in 1..MaxTimers : IntervalFires(t)
  \/ \E s \in 1..MaxScans, out \in StructureOutcomes : StructureSettles(s, out)
  \/ \E s \in 1..MaxScans, out \in IssueOutcomes : IssuesSettle(s, out)
  \/ \E s \in 1..MaxScans, a \in Analyses : AnalysisResolves(s, a)
  \/ \E s \in 1..MaxScans, out \in GenerateOutcomes : RecommendationsResolve(s, out)
  \/ \E s \in 1..MaxScans, out \in CreateIssueOutcomes : CreateIssueSettles(s, out)
  \/ \E s \in 1..MaxScans : AutoModifySettles(s)

SpecScan == Init /\ [][ScanNext]_<< vars, otherVars >>

\* ========================================================================
\* ChatAgent: conversations and processMessage()    agents/chat.js:11-271
\* with GeminiService.chat()                  utils/taskRunner.js:237-271
\* ========================================================================

\* Bounds of the chat model
MaxTurns == 2   \* processMessage() calls
MaxConvs == 2   \* conversation objects created

\* A text is a string, kept as the sequence of its pieces (characters where
\* a prefix is tested); a message of the request body may also be a value
\* that is no string                                 api/chat.js:18-26
Str(chars) == [type |-> "string", chars |-> chars]

NoText == [type |-> "none", chars |-> <<>>]

MsgScan == Str(<< "/", "s", "c", "a", "n" >>)
MsgStatus == Str(<< "/", "s", "t", "a", "t", "u", "s" >>)
MsgIssues == Str(<< "/", "i", "s", "s", "u", "e", "s" >>)
MsgHelpMe == Str(<< "/", "h", "e", "l", "p", " ", "m", "e" >>)
MsgPlain == Str(<< "n", "o", " ", "/", "s", "c", "a", "n" >>)
MsgNumber == [type |-> "number", chars |-> <<>>]

Messages == { MsgScan, MsgStatus, MsgIssues, MsgHelpMe, MsgPlain, MsgNumber }

\* The messages each session sends: the first one every kind, the second one,
\* which is there to run beside the first, the text for the AI responder
MessagesOf(sid) == IF sid = "A" THEN Messages ELSE { MsgPlain }

StartsWithWhole(m, prefix) == m.chars = prefix

\* String.prototype.startsWith
StartsWith(m, prefix) ==
  /\ Len(m.chars) >= Len(prefix)
  /\ SubSeq(m.chars, 1, Len(prefix)) = prefix

\* what message.startsWith(...) throws for a message that is no string
StartsWithTypeError == "message.startsWith is not a function"

\* handleMessage(message, context): the branch it takes   chat.js:100-123
Handler(m) ==
  IF m.type # "string" THEN "typeError"
  ELSE IF StartsWith(m, << "/", "s", "c", "a", "n" >>) THEN "scan"
  ELSE IF StartsWith(m, << "/", "s", "t", "a", "t", "u", "s" >>) THEN "status"
  ELSE IF StartsWith(m, << "/", "i", "s", "s", "u", "e", "s" >>) THEN "issues"
  ELSE IF StartsWith(m, << "/", "h", "e", "l", "p" >>) THEN "help"
  ELSE "ai"

\* chat.js:226-241
GetHelpText == Str(<< "AI Agent Help: /scan /status /issues /help" >>)

\* taskRunner.js:241
MockChatReply(m) == Str(<< "Mock chat reply: Received message '" >> \o m.chars \o << "'" >>)

\* taskRunner.js:267
ChatFallback(e) == Str(<< "Gemini chat unavailable: ", e >>)

Rejected(e) == [ok |-> FALSE, val |-> NoText, error |-> e]

\* How the call handleMessage made ends. The command handlers catch their
\* own errors and resolve with a text (chat.js:130-194), getHelpText is
\* fixed, geminiService.chat resolves with the text of the model, with its
\* fallback or, when disabled, with its mock reply (taskRunner.js:237-271);
\* only the prefix test of a message that is no string throws.
HandlerOutcomes(h, m, enabled) ==
  CASE h = "typeError" -> { Rejected(StartsWithTypeError) }
    [] h = "scan"      -> { Resolved(Str(<< "Scan complete! No issues detected in the project." >>)) }
    [] h = "status"    -> { Resolved(Str(<< "Failed to get status: ", "e1" >>)) }
    [] h = "issues"    -> { Resolved(Str(<< "No open issues!" >>)) }
    [] h = "help"      -> { Resolved(GetHelpText) }
    [] h = "ai"        -> IF enabled
                          THEN { Resolved(Str(<< "answer" >>)), Resolved(ChatFallback("e1")) }
                          ELSE { Resolved(MockChatReply(m)) }

\* what getReadme() resolves with: the file, or the mock; it never rejects
\*                                                      project.js:181-189
ReadmeTexts == { "readme" }

\* chat.js:81
ErrorReply(e) == Str(<< "Sorry, I encountered an error: ", e >>)

\* chat.js:22-27
NewConversation(sid, t) ==
  [sessionId |-> sid, startedAt |-> t, messages |-> <<>>, projectContext |-> NoObject]

\* chat.js:59-63, 70-74, 83-87
Message(role, content, t) == [role |-> role, content |-> content, timestamp |-> t]

\* a processMessage() call: its parameters, its local `context`, where it is
\* suspended, and what it did and handed to its caller
NewTurn(sid, m, ctx) ==
  [ sessionId |-> sid,
    message   |-> m,
    context   |-> ctx,
    created   |-> FALSE,     \* it created the conversation
    alone     |-> TRUE,      \* every earlier turn of the session had returned
    pc        |-> "call",
    at        |-> 0,         \* the `now` of its getProjectStructure() call
    loaded    |-> NoObject,  \* the structure object whose readme it awaits
    handler   |-> "none",
    raised    |-> Null,      \* the error handleMessage rejected with
    aiCalls   |-> 0,         \* calls of geminiService.chat
    given     |-> <<>>,      \* what geminiService.chat was given, and its history
    userIdx   |-> 0,         \* where in context.messages it pushed the user's text
    replyIdx  |-> 0,         \* and the reply
    ret       |-> NoText,
    threw     |-> Null ]

PushNothing(msgs, entry) == msgs

\* Array.prototype.push
Push(msgs, entry) == Append(msgs, entry)

\* an entry of geminiService.conversationHistory; `session` is no property of
\* the object: it records the turn whose chat() call pushed the entry
\*                                           taskRunner.js:245-248, 258-261
HistoryEntry(role, content, tr) ==
  [role |-> role, content |-> content, session |-> tr.sessionId]

\* Array.prototype.slice(-n)
SliceLast(msgs, n) == SubSeq(msgs, IF Len(msgs) > n THEN Len(msgs) - n + 1 ELSE 1, Len(msgs))

\* buildAIContext(context): the summary, as the parts of its text
\*                                                      chat.js:201-220
BuildAIContext(conv) ==
  LET recent == SliceLast(conv.messages, 6)
  IN [ project |-> IF conv.projectContext # NoObject
                   THEN << [files |-> Len(structs[conv.projectContext].files),
                            directories |-> Len(structs[conv.projectContext].directories)] >>
                   ELSE <<>>,
       recent  |-> [i \in 1..Len(recent) |->
                      [who |-> IF recent[i].role = "user" THEN "User" ELSE "Assistant",
                       content |-> recent[i].content]] ]

\* The synchronous part of processMessage from the push of the user's message
\* to the await of handleMessage, for a turn tr whose context object is conv:
\* the conversation, the turn and geminiService.conversationHistory after it
\*                          chat.js:58-67, 100-123, taskRunner.js:237-254
PushAndDispatch(tr, conv, hist, enabled, hit, t) ==
  LET h == Handler(tr.message)
      conv2 == [conv EXCEPT !.messages = Push(conv.messages, Message("user", tr.message, t))]
      hist2 == IF h # "ai" THEN hist
               ELSE IF enabled
               THEN Append(hist, HistoryEntry("user", tr.message, tr))
               ELSE Append(hist, HistoryEntry("assistant", MockChatReply(tr.message), tr))
  IN [ conv    |-> conv2,
       history |-> hist2,
       turn    |-> [tr EXCEPT !.pc = IF h = "scan" /\ ~hit THEN "scanList" ELSE "dispatch",
                              !.at = t,
                              !.handler = h,
                              !.userIdx = Len(conv2.messages),
                              !.aiCalls = IF h = "ai" THEN 1 ELSE 0,
                              !.given = IF h = "ai"
                                        THEN << [message |-> tr.message, history |-> hist2] >>
                                        ELSE <<>>] ]

\* taskRunner.js:191, read once when the process starts
LoadGeminiConfig(enabled) ==
  /\ ~gemini.read
  /\ gemini' = [read |-> TRUE, enabled |-> enabled]
  /\ UNCHANGED << conversations, convs, turns, geminiHistory >>
  /\ UNCHANGED << cachedProjectStructure, cacheExpiry, structs >>
  /\ UNCHANGED exceptChat

\* startConversation(sessionId)                         chat.js:21-33
StartConversation(sid) ==
  /\ gemini.read
  /\ Len(convs) < MaxConvs
  /\ convs' = Append(convs, NewConversation(sid, now))
  /\ conversations' = [conversations EXCEPT ![sid] = Len(convs) + 1]
  /\ UNCHANGED << turns, gemini, geminiHistory >>
  /\ UNCHANGED << cachedProjectStructure, cacheExpiry, structs >>
  /\ UNCHANGED exceptChat

\* clearConversation(sessionId)                         chat.js:257-260
ClearConversation(sid) ==
  /\ gemini.read
  /\ conversations' = [conversations EXCEPT ![sid] = NoObject]
  /\ UNCHANGED << convs, turns, gemini, geminiHistory >>
  /\ UNCHANGED << cachedProjectStructure, cacheExpiry, structs >>
  /\ UNCHANGED exceptChat

\* getHistory(sessionId) of the chat agent              chat.js:248-251
ChatGetHistory(sid) ==
  IF conversations[sid] = NoObject THEN <<>> ELSE convs[conversations[sid]].messages

\* getActiveConversationCount()                         chat.js:266-268
GetActiveConversationCount ==
  Cardinality({ sid \in SessionIds : conversations[sid] # NoObject })

CatchDispatchRethrows(e) == [ret |-> NoText, threw |-> e]

\* the catch block of processMessage, for an error e of handleMessage: what
\* the call hands to its caller                         chat.js:79-91
CatchDispatch(e) == [ret |-> ErrorReply(e), threw |-> Null]

\* The rest of processMessage once the promise of handleMessage settles with
\* out: the reply (the error reply when it rejected) is pushed and returned
\*                          chat.js:67-91, taskRunner.js:256-270
Settle(tr, conv, hist, enabled, out, t) ==
  LET caught == IF out.ok THEN [ret |-> out.val, threw |-> Null]
                ELSE CatchDispatch(out.error)
      conv2 == IF caught.threw = Null
               THEN [conv EXCEPT !.messages =
                       Push(conv.messages, Message("assistant", caught.ret, t))]
               ELSE conv
  IN [ conv    |-> conv2,
       history |-> IF tr.handler = "ai" /\ enabled
                   THEN Append(hist, HistoryEntry("assistant", out.val, tr))
                   ELSE hist,
       turn    |-> [tr EXCEPT !.pc = "returned",
                              !.raised = IF out.ok THEN Null ELSE out.error,
                              !.replyIdx = IF caught.threw = Null
                                           THEN Len(conv2.messages) ELSE 0,
                              !.ret = caught.ret,
                              !.threw = caught.threw] ]

\* handleMessage settles without waiting for anything outside the process:
\* no other request runs between the push of the user's text and the reply
Immediate(h, enabled) == h \in { "typeError", "help" } \/ (h = "ai" /\ ~enabled)

\* processMessage from the push of the user's message up to its next wait
\* for the outside, or to its end                       chat.js:58-91
Dispatch(tr, conv, hist, enabled, hit, t) ==
  LET d == PushAndDispatch(tr, conv, hist, enabled, hit, t)
  IN IF Immediate(d.turn.handler, enabled)
     THEN Settle(d.turn, d.conv, d.history, enabled,
                 CHOOSE out \in HandlerOutcomes(d.turn.handler, tr.message, enabled) : TRUE, t)
     ELSE d

\* processMessage(sessionId, message) up to its first wait   chat.js:41-67
ProcessMessage(sid, m) ==
  /\ gemini.read
  /\ Len(turns) < MaxTurns
  /\ conversations[sid] = NoObject => Len(convs) < MaxConvs
  /\ LET existing == conversations[sid] # NoObject
         ctx == IF existing THEN conversations[sid] ELSE Len(convs) + 1
         cs == IF existing THEN convs ELSE Append(convs, NewConversation(sid, now))
         tr == [NewTurn(sid, m, ctx) EXCEPT
                  !.created = ~existing,
                  !.alone = \A k \in 1..Len(turns) :
                              turns[k].sessionId = sid => turns[k].pc = "returned"]
         hit == IsCacheHit(cachedProjectStructure, cacheExpiry, now)
     IN /\ conversations' = [conversations EXCEPT ![sid] = ctx]
        /\ IF cs[ctx].projectContext # NoObject
           THEN LET d == Dispatch(tr, cs[ctx], geminiHistory, gemini.enabled, hit, now)
                IN /\ convs' = [cs EXCEPT ![ctx] = d.conv]
                   /\ turns' = Append(turns, d.turn)
                   /\ geminiHistory' = d.history
           ELSE /\ geminiHistory' = geminiHistory
                /\ IF hit
                   THEN /\ convs' = [cs EXCEPT ![ctx].projectContext = cachedProjectStructure]
                        /\ turns' = Append(turns, [tr EXCEPT !.pc = "readme",
                                                             !.loaded = cachedProjectStructure])
                   ELSE /\ convs' = cs
                        /\ turns' = Append(turns, [tr EXCEPT !.pc = "listFiles", !.at = now])
  /\ UNCHANGED << gemini, cachedProjectStructure, cacheExpiry, structs >>
  /\ UNCHANGED exceptChat

\* listFiles of the turn's getProjectStructure() resolves: the structure is
\* cached and becomes the conversation's projectContext
\*                                      project.js:29-59, chat.js:51-52
TurnListFilesResolves(t, root) ==
  /\ t \in 1..Len(turns)
  /\ turns[t].pc = "listFiles"
  /\ LET obj == Len(structs) + 1 IN
     /\ structs' = Append(structs, BuildStructure(root, now))
     /\ cachedProjectStructure' = obj
     /\ cacheExpiry' = ExpiryOf(turns[t].at, now)
     /\ convs' = [convs EXCEPT ![turns[t].context].projectContext = obj]
     /\ turns' = [turns EXCEPT ![t].pc = "readme", ![t].loaded = obj]
  /\ UNCHANGED << conversations, gemini, geminiHistory >>
  /\ UNCHANGED exceptChat

\* listFiles rejects: getProjectStructure hands out the mock structure, and
\* had it thrown, the catch of processMessage would go on without a context
\*                                      project.js:60-64, chat.js:53-55
TurnListFilesRejects(t, e) ==
  /\ t \in 1..Len(turns)
  /\ turns[t].pc = "listFiles"
  /\ LET out == MockOrThrow(e)
         obj == Len(structs) + 1
         tr  == turns[t]
     IN IF out.ret
        THEN /\ structs' = Append(structs, GetMockProjectStructure(now))
             /\ convs' = [convs EXCEPT ![tr.context].projectContext = obj]
             /\ turns' = [turns EXCEPT ![t].pc = "readme", ![t].loaded = obj]
             /\ UNCHANGED << conversations, geminiHistory >>
        ELSE LET d == Dispatch(tr, convs[tr.context], geminiHistory, gemini.enabled,
                               IsCacheHit(cachedProjectStructure, cacheExpiry, now), now)
             IN /\ structs' = structs
                /\ convs' = [convs EXCEPT ![tr.context] = d.conv]
                /\ turns' = [turns EXCEPT ![t] = d.turn]
                /\ geminiHistory' = d.history
                /\ conversations' = IF d.turn.pc = "returned"
                                    THEN [conversations EXCEPT ![tr.sessionId] = tr.context]
                                    ELSE conversations
  /\ UNCHANGED << gemini, cachedProjectStructure, cacheExpiry >>
  /\ UNCHANGED exceptChat

\* getReadme() resolves: the text is stored in the structure object that was
\* the projectContext when the await began, the user's message is pushed and
\* handleMessage is called                              chat.js:52, 58-67
ReadmeResolves(t, text) ==
  /\ t \in 1..Len(turns)
  /\ turns[t].pc = "readme"
  /\ LET tr == turns[t]
         d == Dispatch(tr, convs[tr.context], geminiHistory, gemini.enabled,
                       IsCacheHit(cachedProjectStructure, cacheExpiry, now), now)
     IN /\ structs' = [structs EXCEPT ![tr.loaded].readme = text]
        /\ convs' = [convs EXCEPT ![tr.context] = d.conv]
        /\ turns' = [turns EXCEPT ![t] = d.turn]
        /\ geminiHistory' = d.history
        /\ conversations' = IF d.turn.pc = "returned"
                            THEN [conversations EXCEPT ![tr.sessionId] = tr.context]
                            ELSE conversations
  /\ UNCHANGED << gemini, cachedProjectStructure, cacheExpiry >>
  /\ UNCHANGED exceptChat

\* /scan with no fresh cache: listFiles of scanForIssues' getProjectStructure
\* settles; a listing is cached, a failure gives the mock; scanForIssues goes
\* on to read package.json                project.js:20-65, 115-130
ScanCommandListSettles(t, out) ==
  /\ t \in 1..Len(turns)
  /\ turns[t].pc = "scanList"
  /\ IF out.ok
     THEN /\ structs' = Append(structs, BuildStructure(out.val, now))
          /\ cachedProjectStructure' = Len(structs) + 1
          /\ cacheExpiry' = ExpiryOf(turns[t].at, now)
     ELSE \* the mock structure is known to scanForIssues alone
          UNCHANGED << structs, cachedProjectStructure, cacheExpiry >>
  /\ turns' = [turns EXCEPT ![t].pc = "dispatch"]
  /\ UNCHANGED << conversations, convs, gemini, geminiHistory >>
  /\ UNCHANGED exceptChat

\* the promise of handleMessage settles with out; the reply is pushed, the
\* context is put back under its session id and the reply returned
\*                                                      chat.js:67-91
DispatchSettles(t, out) ==
  /\ t \in 1..Len(turns)
  /\ turns[t].pc = "dispatch"
  /\ out \in HandlerOutcomes(turns[t].handler, turns[t].message, gemini.enabled)
  /\ LET tr == turns[t]
         d == Settle(tr, convs[tr.context], geminiHistory, gemini.enabled, out, now)
     IN /\ convs' = [convs EXCEPT ![tr.context] = d.conv]
        /\ turns' = [turns EXCEPT ![t] = d.turn]
        /\ geminiHistory' = d.history
        /\ conversations' = [conversations EXCEPT ![tr.sessionId] = tr.context]
  /\ UNCHANGED << gemini, cachedProjectStructure, cacheExpiry, structs >>
  /\ UNCHANGED exceptChat

AllHandlerOutcomes ==
  UNION { HandlerOutcomes(h, m, en) :
            h \in { "scan", "status", "issues", "ai" }, m \in Messages, en \in BOOLEAN }

ScanListOutcomes ==
  { Resolved(RootWithEnv) } \cup { [ok |-> FALSE, val |-> <<>>, error |-> e] : e \in Errors }

ChatNext ==
  \/ \E en \in BOOLEAN : LoadGeminiConfig(en)
  \/ \E sid \in SessionIds : StartConversation(sid)
  \/ \E sid \in SessionIds : ClearConversation(sid)
  \/ \E sid \in SessionIds : \E m \in MessagesOf(sid) : ProcessMessage(sid, m)
  \/ \E t \in 1..MaxTurns, root \in { RootWithEnv } : TurnListFilesResolves(t, root)
  \/ \E t \in 1..MaxTurns, e \in Errors : TurnListFilesRejects(t, e)
  \/ \E t \in 1..MaxTurns, text \in ReadmeTexts : ReadmeResolves(t, text)
  \/ \E t \in 1..MaxTurns, out \in ScanListOutcomes : ScanCommandListSettles(t, out)
  \/ \E t \in 1..MaxTurns, out \in AllHandlerOutcomes : DispatchSettles(t, out)

SpecChat == Init /\ [][ChatNext]_<< vars, otherVars >>

\* ------------------------------------------------------------------------
\* C11: a getProjectStructure() call made while a snapshot is cached and
\* now < expiry returns that same snapshot object and does not call the
\* remote reader; a call made with nothing cached, or at or after expiry,
\* calls the remote reader exactly once, and when the listing arrives the new
\* snapshot is cached with expiry = the time of the call + 5 minutes.
C11_CacheTTL ==
  /\ [][ Len(calls') = Len(calls) + 1 =>
           LET c == Len(calls') IN
           /\ calls'[c].at = now
           /\ IF cachedProjectStructure # NoObject /\ now < cacheExpiry
              THEN /\ calls'[c].pc = "returned"
                   /\ calls'[c].ret = cachedProjectStructure
                   /\ calls'[c].reads = 0
                   /\ calls'[c].threw = Null
                   /\ UNCHANGED << cachedProjectStructure, cacheExpiry, structs >>
              ELSE /\ calls'[c].pc = "listFiles"
                   /\ calls'[c].reads = 1 ]_cacheVars
  /\ [][ \A c \in 1..Len(calls) :
           (calls[c].pc = "listFiles" /\ calls'[c].remote = "resolved") =>
             /\ calls'[c].pc = "returned"
             /\ calls'[c].reads = 1
             /\ Len(structs') = Len(structs) + 1
             /\ calls'[c].ret = Len(structs')
             /\ cachedProjectStructure' = calls'[c].ret
             /\ cacheExpiry' = calls[c].at + 5 * 60 * 1000 ]_cacheVars
  /\ [](\A c \in 1..Len(calls) :
          /\ calls[c].reads <= 1
          /\ (calls[c].hit <=> calls[c].reads = 0))

\* calls at t = 0, 4 min and 6 min: the remote reader was called at 0 and at
\* 6 min only, and the call at 4 min returned the object of the call at 0
C11_Witness ==
  /\ Len(calls) = 3
  /\ calls[1].at = 0 /\ calls[2].at = 4 * Minute /\ calls[3].at = 6 * Minute
  /\ calls[1].reads = 1 /\ calls[2].reads = 0 /\ calls[3].reads = 1
  /\ calls[1].remote = "resolved" /\ calls[3].remote = "resolved"
  /\ \A c \in 1..3 : calls[c].pc = "returned"
  /\ calls[2].ret = calls[1].ret
  /\ calls[3].ret # calls[1].ret
  /\ cachedProjectStructure = calls[3].ret
  /\ cacheExpiry = 6 * Minute + CACHE_TTL

\* a call made exactly at the expiry of the cached snapshot is a miss
C11_WitnessAtExpiry ==
  /\ Len(calls) = 2
  /\ calls[1].remote = "resolved"
  /\ calls[2].at = calls[1].at + CACHE_TTL
  /\ calls[2].pc = "listFiles" /\ calls[2].reads = 1

\* ------------------------------------------------------------------------
\* C12 as stated: when githubService.listFiles fails, getProjectStructure()
\* fails with that same error and hands no snapshot to its caller.
C12_RemoteFailurePropagates ==
  \A c \in 1..Len(calls) :
    calls[c].remote = "rejected" =>
      /\ calls[c].threw = calls[c].error
      /\ calls[c].ret = NoObject

\* ------------------------------------------------------------------------
\* Helpers of the scanner properties

\* the scanner's own state, without its bookkeeping of no-op calls
scanState == << lastScan, scanInterval, timers, timersCreated, scans, reports >>

\* scan s ends in this step, by returning or by throwing
ScanReturns(s) == scans[s].pc # "returned" /\ scans'[s].pc = "returned"
ScanFails(s) == scans[s].pc # "threw" /\ scans'[s].pc = "threw"

\* a performScan() call begins in this step, made by who
ScanBegins(who) ==
  /\ Len(scans') = Len(scans) + 1
  /\ scans'[Len(scans')].trigger = who

\* ------------------------------------------------------------------------
\* C13: performScan() either returns a complete report, which it stored as
\* the last scan, or throws without having touched the last scan; lastScan
\* is only ever assigned a report whose six fields are all final, so
\* getLastScan() never shows a partially built report.
C13_ScanAllOrNothing ==
  /\ [](GetLastScan # NoObject =>
          \E s \in 1..Len(scans) :
            /\ scans[s].report = GetLastScan
            /\ scans[s].pc \in {"createIssue", "autoModify", "returned"}
            /\ reports[GetLastScan].timestamp = scans[s].timestamp
            /\ reports[GetLastScan].duration = scans[s].duration
            /\ reports[GetLastScan].structure = scans[s].structure
            /\ reports[GetLastScan].issues = scans[s].issues
            /\ reports[GetLastScan].analysis = scans[s].analysis
            /\ reports[GetLastScan].analysis \in Analyses
            /\ Len(reports[GetLastScan].recommendations) = 1)
  /\ [][ lastScan' # lastScan =>
           \E s \in 1..Len(scans) :
             /\ scans[s].pc = "recommend"
             /\ lastScan' = Len(reports) + 1
             /\ scans'[s].report = lastScan' ]_scanVars
  /\ [][ \A r \in 1..Len(reports) : reports'[r] = reports[r] ]_scanVars
  /\ [][ \A s \in 1..Len(scans) :
           /\ ScanReturns(s) =>
                /\ scans'[s].ret # NoObject
                /\ scans'[s].ret = scans'[s].report
                /\ scans'[s].threw = Null
                /\ (scans[s].pc = "recommend" => lastScan' = scans'[s].ret)
           /\ ScanFails(s) =>
                /\ lastScan' = lastScan
                /\ scans'[s].report = NoObject
                /\ scans'[s].ret = NoObject ]_scanVars

\* a scan returned the report that getLastScan() shows
C13_Witness ==
  \E s \in 1..Len(scans) :
    /\ scans[s].pc = "returned"
    /\ scans[s].ret = GetLastScan
    /\ Len(reports[GetLastScan].issues) > 0

\* while a second scan awaits its recommendations, getLastScan() shows the
\* report of the first
C13_WitnessInFlight ==
  /\ Len(scans) = 2
  /\ scans[1].pc = "returned" /\ scans[2].pc = "recommend"
  /\ GetLastScan = scans[1].report

\* ------------------------------------------------------------------------
\* C14: the recommendations of a report are exactly the one fixed entry
\* {low, 'Keep code reviewed regularly', 'No critical issues found'} when
\* the scan found no issue (the AI responder is not called), and otherwise
\* exactly one entry of priority 'high' whose suggestion is the text the AI
\* responder gave this scan.
C14_Recommendations ==
  \A s \in 1..Len(scans) :
    scans[s].report # NoObject =>
      LET rep == reports[scans[s].report] IN
      IF Len(rep.issues) = 0
      THEN /\ rep.recommendations =
                << [priority |-> "low", suggestion |-> "Keep code reviewed regularly",
                    reason |-> "No critical issues found"] >>
           /\ scans[s].generated = 0
      ELSE /\ Len(rep.recommendations) = 1
           /\ rep.recommendations[1].priority = "high"
           /\ rep.recommendations[1].suggestion = scans[s].aiText
           /\ scans[s].aiText # Null
           /\ scans[s].generated = 1

\* a report without issues carries the fixed recommendation
C14_Witness ==
  /\ lastScan # NoObject
  /\ reports[lastScan].issues = <<>>
  /\ reports[lastScan].recommendations = << FixedRecommendation >>

\* a report with issues carries the responder's text as its one recommendation
C14_WitnessAI ==
  /\ lastScan # NoObject
  /\ Len(reports[lastScan].issues) = 4
  /\ reports[lastScan].recommendations = << AIRecommendation("advice") >>

\* ------------------------------------------------------------------------
\* C15: startPeriodicScanning() called while scanning is active changes
\* nothing; a scan begun by it and a new timer appear only in a step from
\* the inactive state, which begins exactly one scan and installs the one
\* timer; so at most one scan timer exists in every reachable state.
C15_StartIdempotent ==
  /\ [](Cardinality(timers) <= 1)
  /\ [][ (scanEv'.noop /\ scanEv'.op = "start") =>
           /\ scanInterval # NoObject
           /\ UNCHANGED scanState ]_scanVars
  /\ [][ (ScanBegins("start") \/ timersCreated' # timersCreated \/ timers' \ timers # {}) =>
           /\ scanInterval = NoObject
           /\ timers = {}
           /\ ScanBegins("start")
           /\ \A s \in 1..Len(scans) : scans'[s] = scans[s]
           /\ scans'[Len(scans')].pc = "structure"
           /\ timersCreated' = timersCreated + 1
           /\ scanInterval' # NoObject
           /\ timers' = {scanInterval'} ]_scanVars

\* startPeriodicScanning() was called while active: still one timer, one scan
C15_Witness ==
  /\ scanEv.noop /\ scanEv.op = "start"
  /\ Cardinality(timers) = 1
  /\ Len(scans) = 1 /\ scans[1].trigger = "start"

\* startPeriodicScanning() began a scan and installed the timer
C15_WitnessStarted ==
  /\ Len(scans) = 1 /\ scans[1].trigger = "start" /\ scans[1].pc = "structure"
  /\ scanInterval # NoObject /\ timers = {scanInterval}

\* ------------------------------------------------------------------------
\* C16: stopScanning() clears the timer, so a timer-triggered scan begins
\* only while a timer installed by startPeriodicScanning() is active; it
\* does nothing when no timer is active; and it leaves every scan in flight
\* where it is, able to continue to completion.
C16_StopScanning ==
  /\ [](timers = IF scanInterval = NoObject THEN {} ELSE {scanInterval})
  /\ [][ ScanBegins("timer") => (scanInterval # NoObject /\ scanInterval \in timers) ]_scanVars
  /\ [][ (scanEv'.noop /\ scanEv'.op = "stop") =>
           /\ scanInterval = NoObject
           /\ UNCHANGED scanState ]_scanVars
  /\ [][ (scanInterval # NoObject /\ scanInterval' = NoObject) =>
           /\ timers' = {}
           /\ lastScan' = lastScan /\ reports' = reports
           /\ Len(scans') = Len(scans)
           /\ \A s \in 1..Len(scans) :
                scans'[s] = [scans[s] EXCEPT !.stopped = scans'[s].stopped] ]_scanVars
  /\ [](\A s \in 1..Len(scans) : InFlightScan(scans[s]) => ENABLED ScanContinues(s))

\* a scan that was in flight when stopScanning() cancelled the timer has
\* completed and stored its report, with scanning still stopped
C16_Witness ==
  \E s \in 1..Len(scans) :
    /\ scans[s].stopped
    /\ scans[s].pc = "returned"
    /\ lastScan = scans[s].report
    /\ scanInterval = NoObject /\ timers = {}

\* stopScanning() was called with no timer active, after a timer-triggered
\* scan had begun and scanning had been stopped
C16_WitnessNoTimer ==
  /\ scanEv.noop /\ scanEv.op = "stop"
  /\ Len(scans) = 2 /\ scans[2].trigger = "timer"

\* ------------------------------------------------------------------------
\* C17: every processMessage(sessionId, text) call works on a conversation
\* of its session, which it creates when the session has none; the messages
\* of a conversation are exactly the pushes of the turns working on it, each
\* turn pushing the user's text once and, after it, its reply once; when a
\* turn completes, getHistory(sessionId) ends with the reply it returns and
\* holds the user's text before it.  So the history of a conversation whose
\* n turns were made one after the other is the n user/assistant pairs in
\* the order of the calls.
TurnsOn(c) == { t \in 1..Len(turns) : turns[t].context = c }

PushesOn(c) ==
  { turns[t].userIdx : t \in { k \in TurnsOn(c) : turns[k].userIdx > 0 } }
    \cup { turns[t].replyIdx : t \in { k \in TurnsOn(c) : turns[k].replyIdx > 0 } }

PushCount(c) ==
  Cardinality({ k \in TurnsOn(c) : turns[k].userIdx > 0 })
    + Cardinality({ k \in TurnsOn(c) : turns[k].replyIdx > 0 })

TurnCompletes(t) ==
  /\ t \in 1..Len(turns')
  /\ turns'[t].pc = "returned"
  /\ t \in 1..Len(turns) => turns[t].pc # "returned"

Sequential(sid) ==
  /\ conversations[sid] # NoObject
  /\ \A t \in 1..Len(turns) : turns[t].sessionId = sid =>
       /\ turns[t].alone
       /\ turns[t].pc = "returned"
       /\ turns[t].context = conversations[sid]

RankOn(c, t) == Cardinality({ k \in TurnsOn(c) : k <= t })

C17_TwoMessagesPerTurn ==
  /\ [](\A t \in 1..Len(turns) :
          /\ turns[t].context \in 1..Len(convs)
          /\ convs[turns[t].context].sessionId = turns[t].sessionId
          /\ turns[t].pc = "returned" <=> turns[t].replyIdx > 0
          /\ turns[t].replyIdx > 0 => 0 < turns[t].userIdx /\ turns[t].userIdx < turns[t].replyIdx
          /\ turns[t].userIdx > 0 =>
               LET msg == convs[turns[t].context].messages[turns[t].userIdx]
               IN msg.role = "user" /\ msg.content = turns[t].message
          /\ turns[t].replyIdx > 0 =>
               LET msg == convs[turns[t].context].messages[turns[t].replyIdx]
               IN msg.role = "assistant" /\ msg.content = turns[t].ret)
  /\ [](\A c \in 1..Len(convs) :
          /\ PushesOn(c) = 1..Len(convs[c].messages)
          /\ PushCount(c) = Len(convs[c].messages))
  /\ [](\A sid \in SessionIds : Sequential(sid) =>
          LET h == ChatGetHistory(sid)
              c == conversations[sid]
          IN /\ Len(h) = 2 * Cardinality(TurnsOn(c))
             /\ \A t \in TurnsOn(c) :
                  /\ h[2 * RankOn(c, t) - 1].role = "user"
                  /\ h[2 * RankOn(c, t) - 1].content = turns[t].message
                  /\ h[2 * RankOn(c, t)].role = "assistant"
                  /\ h[2 * RankOn(c, t)].content = turns[t].ret)
  /\ [][\A t \in 1..MaxTurns : TurnCompletes(t) =>
          LET sid == turns'[t].sessionId IN
          /\ turns'[t].created => turns'[t].context \notin
               { turns'[k].context : k \in 1..(t - 1) }
          /\ conversations'[sid] = turns'[t].context
          /\ turns'[t].replyIdx = Len(convs'[conversations'[sid]].messages)
          /\ turns'[t].threw = Null
          /\ Len(convs'[turns'[t].context].messages)
               = (IF t \in 1..Len(turns)
                  THEN Len(convs[turns[t].context].messages)
                  ELSE IF turns'[t].context \in 1..Len(convs)
                  THEN Len(convs[turns'[t].context].messages)
                  ELSE 0)
                 + (IF t \in 1..Len(turns) /\ turns[t].userIdx > 0 THEN 1 ELSE 2)]_chatVars

\* two turns made one after the other on a session that had no conversation
C17_Witness ==
  /\ Len(turns) = 2
  /\ Sequential("A")
  /\ turns[1].sessionId = "A" /\ turns[2].sessionId = "A"
  /\ turns[1].created
  /\ turns[1].handler = "ai" /\ turns[2].handler = "scan"
  /\ Len(ChatGetHistory("A")) = 4

\* two turns of one session in flight together: their pushes interleave
C17_WitnessOverlap ==
  /\ Len(turns) = 2
  /\ turns[1].context = turns[2].context
  /\ turns[1].pc = "returned" /\ turns[2].pc = "returned"
  /\ turns[2].userIdx < turns[1].replyIdx

\* ------------------------------------------------------------------------
\* C18: no processMessage call throws to its caller; a call whose dispatch
\* raised an error e returns 'Sorry, I encountered an error: e', and that
\* text is in the history of its conversation as an assistant message after
\* the user's message of the same call.
C18_NeverThrows ==
  \A t \in 1..Len(turns) :
    /\ turns[t].threw = Null
    /\ turns[t].raised # Null =>
         LET msgs == convs[turns[t].context].messages IN
         /\ turns[t].pc = "returned"
         /\ turns[t].ret = Str(<< "Sorry, I encountered an error: ", turns[t].raised >>)
         /\ turns[t].userIdx \in 1..Len(msgs)
         /\ turns[t].replyIdx \in (turns[t].userIdx + 1)..Len(msgs)
         /\ msgs[turns[t].userIdx].role = "user"
         /\ msgs[turns[t].userIdx].content = turns[t].message
         /\ msgs[turns[t].replyIdx].role = "assistant"
         /\ msgs[turns[t].replyIdx].content = turns[t].ret

\* a message that is no string makes the prefix test throw
C18_Witness ==
  \E t \in 1..Len(turns) :
    /\ turns[t].raised = StartsWithTypeError
    /\ turns[t].pc = "returned"
    /\ ChatGetHistory(turns[t].sessionId)[turns[t].replyIdx].content = turns[t].ret

\* a collaborator of a command handler fails: the handler answers itself
C18_WitnessHandlerCatches ==
  \E t \in 1..Len(turns) :
    /\ turns[t].handler = "status"
    /\ turns[t].ret = Str(<< "Failed to get status: ", "e1" >>)
    /\ turns[t].raised = Null

\* ------------------------------------------------------------------------
\* C19: a conversation exists for a session id exactly when
\* startConversation or processMessage has been called for it since its
\* last clearConversation: a session comes to have a conversation only in a
\* step that calls one of the two for it, and every such call leaves it with
\* one; it loses its conversation only by clearConversation;
\* getActiveConversationCount() is the number of sessions that have a
\* conversation; startConversation leaves the session with an empty
\* conversation; getHistory of a session without a conversation is empty.
ProcessMessageCalled(sid) ==
  /\ Len(turns') = Len(turns) + 1
  /\ turns'[Len(turns')].sessionId = sid

StartConversationCalled(sid) ==
  /\ turns' = turns
  /\ Len(convs') = Len(convs) + 1
  /\ convs'[Len(convs')].sessionId = sid

ClearConversationCalled ==
  /\ turns' = turns
  /\ convs' = convs

C19_ConversationLifecycle ==
  /\ [][\A sid \in SessionIds :
          /\ (conversations[sid] = NoObject /\ conversations'[sid] # NoObject)
               => (ProcessMessageCalled(sid) \/ StartConversationCalled(sid))
          /\ (ProcessMessageCalled(sid) \/ StartConversationCalled(sid))
               => conversations'[sid] # NoObject
          /\ (conversations[sid] # NoObject /\ conversations'[sid] = NoObject)
               => ClearConversationCalled
          /\ StartConversationCalled(sid)
               => /\ convs'[conversations'[sid]].messages = <<>>
                  /\ convs'[conversations'[sid]].projectContext = NoObject]_chatVars
  /\ [](GetActiveConversationCount
          = Cardinality({ c \in 1..Len(convs) : \E sid \in SessionIds : conversations[sid] = c }))
  /\ [](\A sid \in SessionIds : conversations[sid] = NoObject => ChatGetHistory(sid) = <<>>)

\* ------------------------------------------------------------------------
\* C20: a text that starts with /scan, /status, /issues or /help is answered
\* by the handler of that command (the first of the four, in this order,
\* that is a prefix of the text), and geminiService.chat is not called for
\* it and its history gets nothing; any other text goes to
\* geminiService.chat; the reply to a /help text is the same fixed help text
\* whatever the state of the conversation.
BeginsWith(m, p) == \E k \in 0..Len(m.chars) : SubSeq(m.chars, 1, k) = p

CommandOf(m) ==
  IF BeginsWith(m, << "/", "s", "c", "a", "n" >>) THEN "scan"
  ELSE IF BeginsWith(m, << "/", "s", "t", "a", "t", "u", "s" >>) THEN "status"
  ELSE IF BeginsWith(m, << "/", "i", "s", "s", "u", "e", "s" >>) THEN "issues"
  ELSE IF BeginsWith(m, << "/", "h", "e", "l", "p" >>) THEN "help"
  ELSE "ai"

Commands == { "scan", "status", "issues", "help" }

AITurns == { t \in 1..Len(turns) : turns[t].handler = "ai" }

C20_DispatchByPrefix ==
  /\ \A t \in 1..Len(turns) :
       (turns[t].message.type = "string" /\ turns[t].userIdx > 0) =>
         /\ turns[t].handler = CommandOf(turns[t].message)
         /\ turns[t].handler \in Commands =>
              /\ turns[t].aiCalls = 0
              /\ turns[t].given = <<>>
              /\ turns[t].pc = "returned" =>
                   turns[t].ret \in { out.val : out \in
                     HandlerOutcomes(turns[t].handler, turns[t].message, gemini.enabled) }
         /\ turns[t].handler = "ai" =>
              /\ turns[t].aiCalls = 1
              /\ turns[t].given[1].message = turns[t].message
         /\ (turns[t].handler = "help" /\ turns[t].pc = "returned") =>
              turns[t].ret = Str(<< "AI Agent Help: /scan /status /issues /help" >>)
  /\ Len(geminiHistory) =
       Cardinality(AITurns)
         + Cardinality({ t \in AITurns : gemini.enabled /\ turns[t].pc = "returned" })

\* /help followed by more text, answered in a conversation that already
\* holds a turn answered by the AI responder
C20_Witness ==
  /\ Len(turns) = 2
  /\ turns[1].context = turns[2].context
  /\ turns[1].handler = "ai" /\ turns[1].pc = "returned"
  /\ turns[2].message = MsgHelpMe
  /\ turns[2].pc = "returned"
  /\ turns[2].ret = GetHelpText
  /\ turns[2].userIdx = 3

\* /help as the first message of a session, and a text that holds a command
\* but does not begin with it
C20_WitnessFresh ==
  /\ Len(turns) = 2
  /\ turns[1].message = MsgHelpMe /\ turns[1].created
  /\ turns[1].ret = GetHelpText
  /\ turns[2].message = MsgPlain /\ turns[2].handler = "ai"

\* ------------------------------------------------------------------------
\* C21: the cached snapshot is changed only by getProjectStructure(): the
\* slot gets a new object only when a listing read by getProjectStructure
\* is stored, and the fields of the object the slot holds never change, so
\* a later cache hit returns it as it was stored.
SnapshotStored ==
  /\ Len(structs') = Len(structs) + 1
  /\ cachedProjectStructure' = Len(structs')

C21_SnapshotFrame ==
  [][/\ cachedProjectStructure' # cachedProjectStructure => SnapshotStored
     /\ cachedProjectStructure # NoObject =>
          structs'[cachedProjectStructure] = structs[cachedProjectStructure]
    ]_<< cachedProjectStructure, cacheExpiry, structs >>

\* ------------------------------------------------------------------------
\* C22: a scan that completed its report calls createIssueFromScan, once,
\* exactly when ENABLE_AUTO_FIX is set and the report has at least one
\* issue; when githubService.createIssue fails, the scan does not throw, it
\* returns its report, and the last scan is still that report unless a
\* later scan has stored its own since.
C22_AutoFixFiling ==
  \A s \in 1..Len(scans) :
    /\ scans[s].report = NoObject => scans[s].filed = 0
    /\ scans[s].report # NoObject =>
         (scans[s].filed = 1 <=>
            (config.ENABLE_AUTO_FIX /\ Len(reports[scans[s].report].issues) > 0))
    /\ scans[s].filed \in {0, 1}
    /\ scans[s].fileError # Null =>
         /\ scans[s].filed = 1
         /\ scans[s].threw = Null
         /\ scans[s].pc \in {"autoModify", "returned"}
         /\ scans[s].pc = "returned" => scans[s].ret = scans[s].report
         /\ scans[s].report = Len(reports) => GetLastScan = scans[s].report

\* a scan with issues and auto-fix on, whose issue could not be filed, has
\* returned its report
C22_Witness ==
  \E s \in 1..Len(scans) :
    /\ scans[s].fileError = "e1"
    /\ scans[s].pc = "returned"
    /\ scans[s].ret = scans[s].report
    /\ GetLastScan = scans[s].report
    /\ config.ENABLE_AUTO_FIX

\* issues found while auto-fix is off: nothing is filed
C22_WitnessOff ==
  \E s \in 1..Len(scans) :
    /\ scans[s].pc = "returned"
    /\ Len(reports[scans[s].report].issues) > 0
    /\ ~config.ENABLE_AUTO_FIX
    /\ scans[s].filed = 0

\* ------------------------------------------------------------------------
\* C23: for a text that is no command, processMessage calls
\* geminiService.chat exactly once, hands it the text together with the
\* context summary that buildAIContext made of the conversation (file and
\* directory counts, the last up to 6 messages), and replies with the text
\* the responder resolved with.
C23_ResponderGivenContext ==
  \A t \in 1..Len(turns) :
    turns[t].handler = "ai" =>
      /\ turns[t].aiCalls = 1
      /\ Len(turns[t].given) = 1
      /\ turns[t].given[1].message = turns[t].message
      /\ "context" \in DOMAIN turns[t].given[1]
      /\ turns[t].given[1].context =
           BuildAIContext([convs[turns[t].context] EXCEPT
                             !.messages = SubSeq(@, 1, turns[t].userIdx)])
      /\ turns[t].pc = "returned" =>
           turns[t].ret \in { out.val : out \in
             HandlerOutcomes("ai", turns[t].message, gemini.enabled) }

\* ------------------------------------------------------------------------
\* C24: every runAll() pass ends: whenever the queue is running it is idle
\* again later, also when task actions never settle, because the timeout
\* timer ends each attempt, each backoff wait ends and no task gets more
\* attempts than its retries; and a runAll() called
\* when no pass is running is accepted: it starts a pass over the pending
\* tasks, or returns at once when there are none.
C24_RunAllTerminates ==
  /\ isRunning ~> ~isRunning
  /\ [](pc # "idle" <=> isRunning)
  /\ [](pc \in {"race", "backoff"} => attempt <= heap[cur].retries)
  /\ [][(ev'.op = "runAll" /\ ~isRunning) =>
          IF tasks = <<>>
          THEN ev'.returned /\ ~isRunning'
          ELSE isRunning' /\ pc' = "race" /\ cur' = tasks[1]]_vars

\* a second pass is running after a pass in which a timeout ended an attempt
C24_Witness ==
  /\ isRunning
  /\ pc = "race"
  /\ timeouts > 0
  /\ ~passDirty
  /\ Len(startLog) = 1
  /\ Len(executedTasks) > 0
  /\ executedTasks[1].status = "failed"
  /\ executedTasks[1].error = TimeoutMessage

\* ------------------------------------------------------------------------
\* C25: sessions do not interfere: a step that is no operation on a session
\* leaves its history as it is, and the conversation history the AI
\* responder works from in a turn holds only what the turns of the same
\* session put there.
OperationOn(sid) ==
  \/ ProcessMessageCalled(sid)
  \/ StartConversationCalled(sid)
  \/ ClearConversationCalled /\ conversations'[sid] # conversations[sid]
  \/ \E t \in 1..Len(turns) : turns[t].sessionId = sid /\ turns'[t] # turns[t]

C25_SessionsIsolated ==
  /\ [][\A sid \in SessionIds :
          ~OperationOn(sid) => ChatGetHistory(sid)' = ChatGetHistory(sid)]_chatVars
  /\ [](\A t \in 1..Len(turns) :
          (turns[t].handler = "ai" /\ gemini.enabled) =>
            \A i \in 1..Len(turns[t].given[1].history) :
              turns[t].given[1].history[i].session = turns[t].sessionId)

\* C26: getLastScan() is null until a scan has stored its report, and a step
\* that replaces the stored report never installs one whose timestamp is
\* earlier than that of the report it replaces, also when scans overlap.
\* performScan() takes the timestamp before it awaits the recommendations
\* and stores the report after that await            scanner.js:73,78,81
C26_LatestReportKept ==
  /\ [](GetLastScan = NoObject <=> reports = <<>>)
  /\ [][(lastScan' # lastScan /\ lastScan # NoObject)
          => reports'[lastScan'].timestamp >= reports[lastScan].timestamp]_<< lastScan, reports >>

\* the tasks the for-of iterator of the running pass has yet to deliver
\*                                                   taskRunner.js:67
Undelivered == { IterArr[i] : i \in (idx + 1)..Len(IterArr) }

\* C27: addTask during a runAll() pass never makes the pass execute a task
\* twice or skip one: no task is started twice in one pass, whatever the
\* priority of the task added meanwhile, and an addTask during the pass
\* leaves every task the pass has yet to reach still to be reached.
C27_AddTaskDuringPass ==
  /\ [](\A i, j \in 1..Len(startLog) : i # j => startLog[i] # startLog[j])
  /\ [][(ev'.op = "addTask" /\ pc # "idle")
          => Undelivered \subseteq Undelivered']_vars

\* the tasks of the pending list                     taskRunner.js:10
Pending == { tasks[i] : i \in 1..Len(tasks) }

\* C28: when clear() returns the pending list and getHistory() are empty;
\* from then on the history holds only tasks of the pending list, that is
\* tasks submitted after the clear, and execute() is invoked only for such
\* tasks, also when clear() is called while a runAll() pass is in progress.
C28_ClearDiscards ==
  /\ [][ev'.op = "clear" => (tasks' = <<>> /\ GetHistory' = <<>>)]_vars
  /\ [](\A i \in 1..Len(GetHistory) : GetHistory[i].oid \in Pending)
  /\ [][invocations' # invocations => cur' \in Pending']_vars

\* C29: when clearConversation(sessionId) or startConversation(sessionId) was
\* called while a processMessage turn of that session awaited its reply, so
\* that the store no longer holds the conversation the turn works on, the
\* step that finishes the turn leaves the store's entry of the session as
\* it is: cleared, or holding the fresh empty conversation.
\*                                                   chat.js:42-46, 76, 89
C29_NoReinstall ==
  [][\A t \in 1..Len(turns) :
       (TurnCompletes(t) /\ conversations[turns[t].sessionId] # turns[t].context)
         => conversations'[turns[t].sessionId] = conversations[turns[t].sessionId]]_chatVars

\* the getProjectStructure() calls that wait for githubService.listFiles('')
\*                                                   project.js:29
RemoteReads == { c \in 1..Len(calls) : calls[c].pc = "listFiles" }

\* C30: when getProjectStructure() calls overlap while no unexpired snapshot
\* is cached, at most one remote read is in flight at a time, and a call
\* whose remote read resolves while another call waits for its own hands
\* its snapshot to that call too: the two receive the same object.
C30_SingleFlight ==
  /\ [](Cardinality(RemoteReads) <= 1)
  /\ [](\A c, d \in 1..Len(calls) :
          (calls[c].remote = "resolved" /\ calls[d].remote = "resolved"
             /\ calls[c].at = calls[d].at)
            => calls[c].ret = calls[d].ret)


====
